---- MODULE Spec2Model ----
(***************************************************************************)
(* Round-based coverage/connectivity scheduling engine of the learning-    *)
(* automata sensor network (simulation_core/network.py, sensor.py,         *)
(* communication_model.py, routing.py, energy_model.py).                   *)
(*                                                                         *)
(* Energy is held in integer units of 1e-10 (so E_AMP = 100e-12 is 1 unit, *)
(* E_ELEC = 50e-9 is 500 units, SLEEP = 0.001 is 10^7 units and the 1e-9   *)
(* "near zero" threshold is 10 units).  Positions are integer metres and   *)
(* distances are compared squared.  Automaton probabilities are held in    *)
(* millionths.  The sink's infinite energy is the sentinel Inf.            *)
(***************************************************************************)
EXTENDS Integers, Sequences, FiniteSets, TLC

\* ---------------------------------------------------------------- bounds
MaxRounds == 3

\* ------------------------------------------------------- program constants
SLEEP == 10000000
MONITORING == 500000000
PROCESSING == 200000000
E_ELEC == 500
E_AMP == 1
PACKET_SIZE_BITS == 512
NEAR_ZERO == 10
ROUTE_MIN_ENERGY == 10000
MIN_PROB == 1000
ONE == 1000000
HALF == 500000
A_NUM == 1
A_DEN == 10
W_BRIDGE_ENERGY == 6
W_BRIDGE_LA_PREF == 4
K_COVERAGE_LEVEL == 1
Inf == 2147483647
CostScale == 1000000000

ACTIVE == "ACTIVE"
SLEEPING == "SLEEP"
DEAD == "DEAD"
NoneVal == "None"

\* ------------------------------------------------------------ deployments
\* Each deployment is one configuration the simulation manager can load:
\* sensor records in configuration order, the POI list, and the scalar
\* parameters.  loss / failures say whether the configured probability is
\* positive (a draw may then go either way) or exactly 0.0.
LineDeployment(sink, loss, failures) ==
  [ ids |-> <<0, 1, 2>>, sink_id |-> sink,
    pos |-> IF sink = 0 THEN (0 :> <<0, 0>> @@ 1 :> <<3, 0>> @@ 2 :> <<6, 0>>)
                        ELSE (2 :> <<0, 0>> @@ 0 :> <<3, 0>> @@ 1 :> <<6, 0>>),
    initial_energy |-> (0 :> 40000000 @@ 1 :> 40000000 @@ 2 :> 40000000),
    comm_range |-> (0 :> 3 @@ 1 :> 3 @@ 2 :> 3),
    sensing_range |-> (0 :> 2 @@ 1 :> 2 @@ 2 :> 2),
    poi_ids |-> <<10>>, poi_pos |-> (10 :> <<7, 0>>),
    packet_loss |-> loss, failures |-> failures,
    time_slice |-> 15000000, poi_broadcast_interval |-> 2,
    reward_method |-> IF failures THEN "energy" ELSE "cardinality" ]

OverlapDeployment(extraPoi) ==
  [ ids |-> <<0, 1, 2, 3, 4>>, sink_id |-> 0,
    pos |-> (0 :> <<2, 2>> @@ 1 :> <<0, 0>> @@ 2 :> <<2, 0>> @@ 3 :> <<4, 0>> @@ 4 :> <<3, 1>>),
    initial_energy |-> (0 :> 10000000 @@ 1 :> 25000000 @@ 2 :> 20000000
                        @@ 3 :> 15000000 @@ 4 :> 15000000),
    comm_range |-> (0 :> 6 @@ 1 :> 6 @@ 2 :> 6 @@ 3 :> 6 @@ 4 :> 6),
    sensing_range |-> (0 :> 2 @@ 1 :> 2 @@ 2 :> 2 @@ 3 :> 2 @@ 4 :> 2),
    poi_ids |-> IF extraPoi THEN <<10, 11, 12>> ELSE <<10, 11>>,
    poi_pos |-> (10 :> <<1, 0>> @@ 11 :> <<3, 0>> @@ 12 :> <<0, 9>>),
    packet_loss |-> FALSE, failures |-> FALSE,
    time_slice |-> 10000000, poi_broadcast_interval |-> 1,
    reward_method |-> "cardinality" ]

LowEnergyDeployment(loss) ==
  [ ids |-> <<0, 1, 2, 3>>, sink_id |-> 0,
    pos |-> (0 :> <<0, 0>> @@ 1 :> <<2, 0>> @@ 2 :> <<0, 2>> @@ 3 :> <<4, 0>>),
    initial_energy |-> (0 :> 10000000 @@ 1 :> 20200000 @@ 2 :> 20000005 @@ 3 :> 20300000),
    comm_range |-> (0 :> 3 @@ 1 :> 3 @@ 2 :> 3 @@ 3 :> 3),
    sensing_range |-> (0 :> 1 @@ 1 :> 2 @@ 2 :> 1 @@ 3 :> 2),
    poi_ids |-> <<10, 11>>, poi_pos |-> (10 :> <<3, 1>> @@ 11 :> <<3, 0>>),
    packet_loss |-> loss, failures |-> loss,
    time_slice |-> 20000000, poi_broadcast_interval |-> 2,
    reward_method |-> IF loss THEN "energy" ELSE "cardinality" ]

NoPoiDeployment ==
  [ ids |-> <<0, 1, 2>>, sink_id |-> 0,
    pos |-> (0 :> <<0, 0>> @@ 1 :> <<1, 0>> @@ 2 :> <<5, 5>>),
    initial_energy |-> (0 :> 10000000 @@ 1 :> 20000000 @@ 2 :> 10000005),
    comm_range |-> (0 :> 3 @@ 1 :> 3 @@ 2 :> 3),
    sensing_range |-> (0 :> 2 @@ 1 :> 2 @@ 2 :> 2),
    poi_ids |-> << >>, poi_pos |-> << >>,
    packet_loss |-> FALSE, failures |-> TRUE,
    time_slice |-> 10000000, poi_broadcast_interval |-> 1,
    reward_method |-> "cardinality" ]

\* sensor 2 senses the POI and has the most energy but no route to the sink;
\* sensor 1 senses it too and is the sink's neighbour
DetourDeployment ==
  [ ids |-> <<0, 1, 2>>, sink_id |-> 0,
    pos |-> (0 :> <<0, 0>> @@ 1 :> <<2, 0>> @@ 2 :> <<9, 0>>),
    initial_energy |-> (0 :> 10000000 @@ 1 :> 30000000 @@ 2 :> 35000000),
    comm_range |-> (0 :> 3 @@ 1 :> 3 @@ 2 :> 3),
    sensing_range |-> (0 :> 2 @@ 1 :> 4 @@ 2 :> 4),
    poi_ids |-> <<10>>, poi_pos |-> (10 :> <<5, 0>>),
    packet_loss |-> FALSE, failures |-> TRUE,
    time_slice |-> 5000000, poi_broadcast_interval |-> 1,
    reward_method |-> "energy" ]

\* sensors 1 and 2 both sense POI 10, sensor 3 alone senses POI 11; sensor 1
\* can work one round, sensor 2 can sleep one round with a residue left
ResidualDeployment ==
  [ ids |-> <<0, 1, 2, 3>>, sink_id |-> 0,
    pos |-> (0 :> <<0, 0>> @@ 1 :> <<2, 0>> @@ 2 :> <<2, 1>> @@ 3 :> <<0, 2>>),
    initial_energy |-> (0 :> 10000000 @@ 1 :> 12000000 @@ 2 :> 10000005 @@ 3 :> 40000000),
    comm_range |-> (0 :> 3 @@ 1 :> 3 @@ 2 :> 3 @@ 3 :> 3),
    sensing_range |-> (0 :> 2 @@ 1 :> 2 @@ 2 :> 2 @@ 3 :> 2),
    poi_ids |-> <<10, 11>>, poi_pos |-> (10 :> <<3, 0>> @@ 11 :> <<0, 3>>),
    packet_loss |-> FALSE, failures |-> FALSE,
    time_slice |-> 15000000, poi_broadcast_interval |-> 1,
    reward_method |-> "cardinality" ]

\* a line whose sensor ids rise towards the sink: sensor 0 senses the POI,
\* sensor 1 is the relay, the sink has the highest id
RisingLineDeployment ==
  [ ids |-> <<0, 1, 2>>, sink_id |-> 2,
    pos |-> (0 :> <<6, 0>> @@ 1 :> <<3, 0>> @@ 2 :> <<0, 0>>),
    initial_energy |-> (0 :> 40000000 @@ 1 :> 40000000 @@ 2 :> 40000000),
    comm_range |-> (0 :> 3 @@ 1 :> 3 @@ 2 :> 3),
    sensing_range |-> (0 :> 2 @@ 1 :> 2 @@ 2 :> 2),
    poi_ids |-> <<10>>, poi_pos |-> (10 :> <<7, 0>>),
    packet_loss |-> FALSE, failures |-> FALSE,
    time_slice |-> 15000000, poi_broadcast_interval |-> 2,
    reward_method |-> "cardinality" ]

\* a line of four: sensor 3 senses the POI and needs both sensor 2 and
\* sensor 1 as relays to reach the sink
ChainDeployment ==
  [ ids |-> <<0, 1, 2, 3>>, sink_id |-> 0,
    pos |-> (0 :> <<0, 0>> @@ 1 :> <<3, 0>> @@ 2 :> <<6, 0>> @@ 3 :> <<9, 0>>),
    initial_energy |-> (0 :> 40000000 @@ 1 :> 40000000 @@ 2 :> 40000000 @@ 3 :> 40000000),
    comm_range |-> (0 :> 3 @@ 1 :> 3 @@ 2 :> 3 @@ 3 :> 3),
    sensing_range |-> (0 :> 2 @@ 1 :> 2 @@ 2 :> 2 @@ 3 :> 2),
    poi_ids |-> <<10>>, poi_pos |-> (10 :> <<10, 0>>),
    packet_loss |-> FALSE, failures |-> FALSE,
    time_slice |-> 15000000, poi_broadcast_interval |-> 1,
    reward_method |-> "cardinality" ]

\* sensor 1 senses both POIs but can work one round only; sensors 2 and 3
\* sense one POI each and take over together
SuccessionDeployment ==
  [ ids |-> <<0, 1, 2, 3>>, sink_id |-> 0,
    pos |-> (0 :> <<0, 0>> @@ 1 :> <<2, 0>> @@ 2 :> <<2, 3>> @@ 3 :> <<2, -3>>),
    initial_energy |-> (0 :> 10000000 @@ 1 :> 12000000 @@ 2 :> 40000000 @@ 3 :> 40000000),
    comm_range |-> (0 :> 4 @@ 1 :> 4 @@ 2 :> 4 @@ 3 :> 4),
    sensing_range |-> (0 :> 2 @@ 1 :> 2 @@ 2 :> 2 @@ 3 :> 2),
    poi_ids |-> <<10, 11>>, poi_pos |-> (10 :> <<2, 2>> @@ 11 :> <<2, -2>>),
    packet_loss |-> FALSE, failures |-> FALSE,
    time_slice |-> 15000000, poi_broadcast_interval |-> 1,
    reward_method |-> "cardinality" ]

\* sensor 3 senses the POI next to it and needs a relay; sensors 1 and 2 can
\* both relay and take turns as their energies fall; sensor 1 senses the POI
\* as well
AlternatingDeployment ==
  [ ids |-> <<0, 1, 2, 3>>, sink_id |-> 0,
    pos |-> (0 :> <<0, 0>> @@ 1 :> <<3, 1>> @@ 2 :> <<3, -1>> @@ 3 :> <<6, 0>>),
    initial_energy |-> (0 :> 10000000 @@ 1 :> 40000000 @@ 2 :> 38000000 @@ 3 :> 60000000),
    comm_range |-> (0 :> 4 @@ 1 :> 4 @@ 2 :> 4 @@ 3 :> 4),
    sensing_range |-> (0 :> 2 @@ 1 :> 5 @@ 2 :> 2 @@ 3 :> 2),
    poi_ids |-> <<10>>, poi_pos |-> (10 :> <<7, 0>>),
    packet_loss |-> FALSE, failures |-> FALSE,
    time_slice |-> 15000000, poi_broadcast_interval |-> 1,
    reward_method |-> "cardinality" ]

\* the only POI lies next to the sink, out of sensing range of the one sensor
SinkSideDeployment ==
  [ ids |-> <<0, 1>>, sink_id |-> 0,
    pos |-> (0 :> <<0, 0>> @@ 1 :> <<3, 0>>),
    initial_energy |-> (0 :> 40000000 @@ 1 :> 40000000),
    comm_range |-> (0 :> 3 @@ 1 :> 3),
    sensing_range |-> (0 :> 2 @@ 1 :> 2),
    poi_ids |-> <<10>>, poi_pos |-> (10 :> <<0, 1>>),
    packet_loss |-> FALSE, failures |-> FALSE,
    time_slice |-> 15000000, poi_broadcast_interval |-> 1,
    reward_method |-> "cardinality" ]

Deployments ==
  { LineDeployment(0, FALSE, FALSE), LineDeployment(0, TRUE, TRUE),
    LineDeployment(2, FALSE, TRUE), LineDeployment(2, FALSE, FALSE),
    OverlapDeployment(TRUE), OverlapDeployment(FALSE),
    LowEnergyDeployment(FALSE), LowEnergyDeployment(TRUE),
    NoPoiDeployment, DetourDeployment, ResidualDeployment,
    RisingLineDeployment, ChainDeployment, SuccessionDeployment,
    AlternatingDeployment, SinkSideDeployment }

\* ------------------------------------------------------------------ state
VARIABLES
  config,                  \* the deployment and parameters loaded at setup
  pc,                      \* position inside run_one_round
  current_round,
  current_energy, state, is_failed,
  neighbors, monitored_pois, neighbor_poi_coverage,
  la,                      \* P(ACTIVE) of each automaton, in millionths
  data_buffer,
  covered_by_sensors,      \* per POI
  total_packets_generated, total_packets_delivered_to_sink, total_latency,
  min_Th_cardinality_observed, max_Eth_remaining_energy_observed,
  is_first_iteration, coverage_lost,
  final_cs_ids, working_time,  \* locals of run_one_round carried across phases
  monitoring_log,          \* what the monitoring phase logged about its result
  routing_log,             \* what the routing phase logged per packet
  stats,                   \* the record returned by run_one_round
  last_call                \* the last direct call of send_packet or broadcast_message
                           \* and what it returned

vars == << config, pc, current_round, current_energy, state, is_failed,
           neighbors, monitored_pois, neighbor_poi_coverage, la, data_buffer,
           covered_by_sensors, total_packets_generated,
           total_packets_delivered_to_sink, total_latency,
           min_Th_cardinality_observed, max_Eth_remaining_energy_observed,
           is_first_iteration, coverage_lost, final_cs_ids, working_time,
           monitoring_log, routing_log, stats, last_call >>

\* ---------------------------------------------------------------- helpers
Range(s) == { s[i] : i \in 1..Len(s) }

Max(a, b) == IF a >= b THEN a ELSE b
Min(a, b) == IF a <= b THEN a ELSE b

RECURSIVE SumOver(_, _)
SumOver(f, S) ==
  IF S = {} THEN 0
  ELSE LET x == CHOOSE y \in S : TRUE IN f[x] + SumOver(f, S \ {x})

\* the subsequence of s whose elements satisfy membership in S, order kept
RECURSIVE FilterSeq(_, _)
FilterSeq(s, S) ==
  IF s = << >> THEN << >>
  ELSE IF Head(s) \in S THEN <<Head(s)>> \o FilterSeq(Tail(s), S)
       ELSE FilterSeq(Tail(s), S)

SensorIds(c) == Range(c.ids)
PoiIds(c) == Range(c.poi_ids)
IsSink(c, s) == s = c.sink_id
NonSink(c) == SensorIds(c) \ {c.sink_id}

DistSq(p, q) == (p[1] - q[1]) * (p[1] - q[1]) + (p[2] - q[2]) * (p[2] - q[2])

RECURSIVE Pow10(_)
Pow10(k) == IF k = 0 THEN 1 ELSE 10 * Pow10(k - 1)

\* floor(10^k * r / t) for 0 <= r < t, by long division (no wide product)
RECURSIVE LongDiv(_, _, _)
LongDiv(r, t, k) ==
  IF k = 0 THEN 0
  ELSE ((10 * r) \div t) * Pow10(k - 1) + LongDiv((10 * r) % t, t, k - 1)

\* a float quotient a / t clamped to [0, 1], in millionths
Ratio(a, t) == IF a <= 0 THEN 0 ELSE IF a >= t THEN ONE ELSE LongDiv(a, t, 6)

\* lexicographic order on equal-length tuples of integers
RECURSIVE TupleLess(_, _)
TupleLess(a, b) ==
  IF a = << >> THEN FALSE
  ELSE IF Head(a) # Head(b) THEN Head(a) < Head(b)
  ELSE TupleLess(Tail(a), Tail(b))

BoolInt(b) == IF b THEN 1 ELSE 0

\* -------------------------------------------------------- energy_model.py
\* faulty variant: transmitting costs nothing
FreeTransmission(dsq4) == 0

\* faulty variant: the cost is attenuated by the distance
AttenuatedByDistance(dsq4) == (E_ELEC * PACKET_SIZE_BITS) \div (1 + dsq4)

\* communication_tx_cost on a distance given by four times its square
\* (so that comm_range / 2 is an argument too)
communication_tx_cost(dsq4) ==
  IF dsq4 = 0 THEN E_ELEC * PACKET_SIZE_BITS
  ELSE E_ELEC * PACKET_SIZE_BITS + ((E_AMP * PACKET_SIZE_BITS) \div 4) * dsq4

communication_rx_cost == E_ELEC * PACKET_SIZE_BITS

\* --------------------------------------------------------------- sensor.py
\* LearningAutomaton: the pair <<P(ACTIVE), P(SLEEP)>> (tuples count from 1,
\* so the list indices 0 and 1 are 1 and 2)
ACTION_ACTIVE_IDX == 1
ACTION_SLEEP_IDX == 2

Clamp01(p) == Max(0, Min(ONE, p))

\* the probabilities as they stand, neither normalised nor clipped
LeftUnclipped(probs) == probs

normalize_and_clip(probs) ==
  LET p0 == Clamp01(probs[ACTION_ACTIVE_IDX])
      p1 == Clamp01(probs[ACTION_SLEEP_IDX])
      total == p0 + p1
      n == IF total # ONE
           THEN (IF total = 0 THEN <<HALF, HALF>>
                 ELSE <<Ratio(p0, total), Ratio(p1, total)>>)
           ELSE <<p0, p1>>
      c == IF n[ACTION_ACTIVE_IDX] < MIN_PROB THEN <<MIN_PROB, ONE - MIN_PROB>>
           ELSE IF n[ACTION_SLEEP_IDX] < MIN_PROB THEN <<ONE - MIN_PROB, MIN_PROB>>
           ELSE n
      final_sum == c[1] + c[2]
  IN IF final_sum # ONE
     THEN (IF final_sum = 0 THEN <<HALF, HALF>>
           ELSE <<Ratio(c[1], final_sum), Ratio(c[2], final_sum)>>)
     ELSE c

set_probabilities_based_on_energy_ratio(energy_ratio) ==
  LET prob_active == Clamp01(energy_ratio)
  IN normalize_and_clip(<<prob_active, ONE - prob_active>>)

update_probabilities_LRI(probs, chosen_action_idx, is_reward_signal) ==
  IF ~is_reward_signal THEN probs
  ELSE LET rewarded == probs[ACTION_ACTIVE_IDX]
           other == probs[ACTION_SLEEP_IDX]
       IN normalize_and_clip(
            << rewarded + (A_NUM * (ONE - rewarded)) \div A_DEN,
               other - (A_NUM * other) \div A_DEN >>)

initialize_probabilities == <<HALF, HALF>>

\* faulty variant: the amount is subtracted without the clamp to 0 and DEAD
DebitWithoutClamp(e, st, is_sink, activity_type, amount) ==
  IF is_sink \/ st = DEAD THEN [energy |-> e, state |-> st]
  ELSE [energy |-> e - amount, state |-> st]

\* Sensor.update_energy on one sensor: returns the new energy and state
update_energy(e, st, is_sink, activity_type, amount) ==
  IF is_sink \/ st = DEAD THEN [energy |-> e, state |-> st]
  ELSE LET cost == IF amount # 0 THEN amount
                   ELSE IF activity_type # NoneVal
                        THEN (IF activity_type = ACTIVE THEN MONITORING
                              ELSE IF activity_type = SLEEPING THEN SLEEP
                              ELSE IF activity_type = "PROCESSING" THEN PROCESSING
                              ELSE 0)
                        ELSE (IF st = ACTIVE THEN MONITORING
                              ELSE IF st = SLEEPING THEN SLEEP ELSE 0)
           left == e - cost
       IN IF left <= 0 THEN [energy |-> 0, state |-> DEAD]
          ELSE [energy |-> left, state |-> st]

can_communicate_with(c, failed, a, b) ==
  IF failed[b] \/ failed[a] THEN FALSE
  ELSE DistSq(c.pos[a], c.pos[b]) <= c.comm_range[a] * c.comm_range[a] /\ a # b

can_sense_poi(c, failed, st, s, p) ==
  IF failed[s] \/ st[s] = DEAD THEN FALSE
  ELSE DistSq(c.pos[s], c.poi_pos[p]) <= c.sensing_range[s] * c.sensing_range[s]

\* -------------------------------------------------------------- network.py
\* faulty variant: neighbours are found by range alone
NeighborsByRangeOnly(c, failed, st) == [ s \in SensorIds(c) |-> FilterSeq(c.ids, { o \in SensorIds(c) : o # s /\ DistSq(c.pos[s], c.pos[o]) <= c.comm_range[s] * c.comm_range[s] }) ]

\* _discover_all_neighbors_and_pois: the neighbour and POI lists it leaves
DiscoverNeighbors(c, failed, st) ==
  [ s \in SensorIds(c) |->
      IF failed[s] \/ st[s] = DEAD THEN << >>
      ELSE FilterSeq(c.ids, { o \in SensorIds(c) : can_communicate_with(c, failed, s, o) }) ]

DiscoverPois(c, failed, st) ==
  [ s \in SensorIds(c) |->
      IF failed[s] \/ st[s] = DEAD THEN << >>
      ELSE FilterSeq(c.poi_ids, { p \in PoiIds(c) : can_sense_poi(c, failed, st, s, p) }) ]

EmptyCoverage(c) ==
  [ heard |-> {}, cov |-> [ n \in SensorIds(c) |-> {} ] ]

NoCoverSet == [ none |-> TRUE, ids |-> {} ]
CoverSet(S) == [ none |-> FALSE, ids |-> S ]

EmptyStats ==
  [ round |-> 0, active_sensors |-> 0, sleep_sensors |-> 0, dead_sensors |-> 0,
    covered_pois |-> 0, coverage_q_k |-> 0, generated |-> 0, delivered |-> 0,
    latency |-> 0 ]

\* run_one_round is driven by the simulation manager; no direct call yet
NoCall == [ op |-> NoneVal ]

EmptyMonitoringLog ==
  [ cover_set |-> {}, trimmed |-> {}, final_active_set |-> {}, bridges |-> {},
    returned |-> FALSE, rewarded |-> {} ]

\* the state after Network(...), deploy_sensors(...) and deploy_pois(...)
Init ==
  /\ config \in Deployments
  /\ pc = "idle"
  /\ current_round = 0
  /\ current_energy = [ s \in SensorIds(config) |->
                          IF IsSink(config, s) THEN Inf ELSE config.initial_energy[s] ]
  /\ state = [ s \in SensorIds(config) |-> IF IsSink(config, s) THEN ACTIVE ELSE SLEEPING ]
  /\ is_failed = [ s \in SensorIds(config) |-> FALSE ]
  /\ neighbors = DiscoverNeighbors(config, is_failed, state)
  /\ monitored_pois = DiscoverPois(config, is_failed, state)
  /\ neighbor_poi_coverage = [ s \in SensorIds(config) |-> EmptyCoverage(config) ]
  /\ la = [ s \in NonSink(config) |-> <<HALF, HALF>> ]
  /\ data_buffer = [ s \in SensorIds(config) |-> << >> ]
  /\ covered_by_sensors = [ p \in PoiIds(config) |-> {} ]
  /\ total_packets_generated = 0
  /\ total_packets_delivered_to_sink = 0
  /\ total_latency = 0
  /\ min_Th_cardinality_observed = Inf
  /\ max_Eth_remaining_energy_observed = -Inf
  /\ is_first_iteration = TRUE
  /\ coverage_lost = FALSE
  /\ final_cs_ids = NoCoverSet
  /\ working_time = 0
  /\ monitoring_log = EmptyMonitoringLog
  /\ routing_log = << >>
  /\ stats = EmptyStats
  /\ last_call = NoCall

\* ------------------------------------------------- monitoring: cover set
Alive(s) == ~is_failed[s] /\ state[s] # DEAD
CanSense(s, p) == can_sense_poi(config, is_failed, state, s, p)
HasLA(s) == s \in DOMAIN la
ProbActive(s) == la[s][ACTION_ACTIVE_IDX]

get_poi_coverage_map(active_sensor_ids_set) ==
  [ p \in PoiIds(config) |->
      Cardinality({ s \in active_sensor_ids_set :
                      s \in SensorIds(config) /\ ~is_failed[s] /\ CanSense(s, p) }) ]

\* BFS of _is_connected_to_sink: the nodes the search visits
RECURSIVE BfsVisited(_, _)
BfsVisited(visited, active) ==
  LET next == { n \in active :
                  /\ n \notin visited
                  /\ ~is_failed[n]
                  /\ \E v \in visited : n \in Range(neighbors[v]) }
  IN IF next = {} THEN visited ELSE BfsVisited(visited \cup next, active)

is_connected_to_sink(sensor_id_to_check, active_sensor_ids_for_path) ==
  IF sensor_id_to_check = config.sink_id THEN TRUE
  ELSE IF sensor_id_to_check \notin active_sensor_ids_for_path THEN FALSE
  ELSE \E v \in BfsVisited({sensor_id_to_check},
                           active_sensor_ids_for_path \ {config.sink_id}) :
         config.sink_id \in Range(neighbors[v])

PotentialCoverers(p) ==
  { s \in NonSink(config) : Alive(s) /\ CanSense(s, p) }

\* faulty variant: only POIs with two or more potential coverers are looked at
CriticalAmongShared(current_uncovered_pois) == LET shared == { p \in current_uncovered_pois : Cardinality(PotentialCoverers(p)) >= 2 } IN IF shared = {} THEN << {}, {} >> ELSE << shared, UNION { PotentialCoverers(p) : p \in shared } >>

\* _identify_critical_targets_and_sensors: <<critical targets, critical sensors>>
identify_critical_targets_and_sensors(current_uncovered_pois) ==
  LET coverable == { p \in current_uncovered_pois : PotentialCoverers(p) # {} }
      sum(p) == SumOver(current_energy, PotentialCoverers(p))
  IN IF coverable = {} THEN << {}, {} >>
     ELSE LET targets == { p \in coverable : \A q \in coverable : sum(p) <= sum(q) }
          IN << targets, UNION { PotentialCoverers(p) : p \in targets } >>

\* "covers at least one POI that none of its automaton-willing neighbours
\* advertised": the is_locally_unique flag of rule 1 and of the fallback
LocallyUnique(s, newly) ==
  \E p \in newly :
    ~ \E n \in neighbor_poi_coverage[s].heard :
        HasLA(n) /\ ProbActive(n) >= HALF /\ p \in neighbor_poi_coverage[s].cov[n]

\* the sort key (new targets, locally unique, P(ACTIVE), energy ratio); the
\* energy ratios of one call share their denominator, so energy orders them
Rule1Key(s, newly) ==
  << Cardinality(newly), BoolInt(LocallyUnique(s, newly)), ProbActive(s),
     current_energy[s] >>

\* _select_sensor_by_rule1: the sensors the sort can put first (the pool is a
\* set of objects, so equal keys come in an arbitrary order); {} is None
select_sensor_by_rule1(critical_sensors_pool, critical_targets_to_cover, current_cover_set_ids) ==
  LET newly(s) == { t \in critical_targets_to_cover :
                      /\ ~ \E m \in current_cover_set_ids : CanSense(m, t)
                      /\ CanSense(s, t) }
      pass(consider_all_pa) ==
        { s \in critical_sensors_pool :
            /\ s \notin current_cover_set_ids
            /\ HasLA(s)
            /\ (consider_all_pa \/ ProbActive(s) >= HALF)
            /\ newly(s) # {} }
      cands == IF pass(FALSE) # {} THEN pass(FALSE) ELSE pass(TRUE)
  IN IF critical_sensors_pool = {} \/ critical_targets_to_cover = {} THEN {}
     ELSE { s \in cands :
              \A o \in cands : ~TupleLess(Rule1Key(s, newly(s)), Rule1Key(o, newly(o))) }

\* the fallback of monitoring_phase (no critical target left): the first
\* sensor in configuration order among those with the greatest key
FallbackSensor(cs, uncovered) ==
  LET newly(s) == { p \in uncovered : CanSense(s, p) }
      cands == { s \in SensorIds(config) :
                   s \notin cs /\ Alive(s) /\ HasLA(s) /\ newly(s) # {} }
      best == { s \in cands :
                  \A o \in cands : ~TupleLess(Rule1Key(s, newly(s)), Rule1Key(o, newly(o))) }
      order == FilterSeq(config.ids, best)
  IN IF order = << >> THEN {} ELSE { Head(order) }

MaxCsFormationIterations == Cardinality(SensorIds(config)) + Cardinality(PoiIds(config))

\* step 3.1 of monitoring_phase: every cover set the formation loop can end with
RECURSIVE FormCoverSet(_, _, _)
FormCoverSet(cs, uncovered, iter_num) ==
  IF iter_num >= MaxCsFormationIterations \/ uncovered = {} THEN { cs }
  ELSE LET crit == identify_critical_targets_and_sensors(uncovered)
           chosen == IF crit[1] = {} THEN FallbackSensor(cs, uncovered)
                     ELSE IF crit[2] = {} THEN {}
                     ELSE select_sensor_by_rule1(crit[2], crit[1], cs)
       IN IF chosen = {} THEN { cs }
          ELSE UNION { FormCoverSet(cs \cup {s},
                                    uncovered \ { p \in uncovered : CanSense(s, p) },
                                    iter_num + 1) : s \in chosen }

\* _trim_cover_set: members are tried in ascending energy (equal energies in
\* the order the set yields them); every result the pass can produce
RECURSIVE TrimFrom(_, _)
TrimFrom(to_check, trimmed) ==
  IF to_check = {} THEN { trimmed }
  ELSE LET lowest == { s \in to_check :
                         \A o \in to_check : current_energy[s] <= current_energy[o] }
           after(s) == LET cov == get_poi_coverage_map(trimmed \ {s})
                       IN IF \A p \in PoiIds(config) : cov[p] >= 1
                          THEN trimmed \ {s} ELSE trimmed
       IN UNION { TrimFrom(to_check \ {s}, after(s)) : s \in lowest }

\* faulty variant: the member with the least energy is dropped unchecked
TrimLowestEnergy(current_cover_set_ids) == { current_cover_set_ids \ {s} : s \in { m \in current_cover_set_ids : \A o \in current_cover_set_ids : current_energy[m] <= current_energy[o] } }

trim_cover_set(current_cover_set_ids) ==
  TrimFrom(current_cover_set_ids, current_cover_set_ids)

\* --------------------------------------- monitoring: connectivity repair
RECURSIVE SortedSeq(_)
SortedSeq(S) ==
  IF S = {} THEN << >>
  ELSE LET m == CHOOSE x \in S : \A y \in S : x <= y
       IN <<m>> \o SortedSeq(S \ {m})

\* 0.6 * (energy / initial_energy) + 0.4 * P(ACTIVE), in ten-millionths
BridgeUtility(c) ==
  W_BRIDGE_ENERGY * (IF config.initial_energy[c] > 0
                     THEN Ratio(current_energy[c], config.initial_energy[c]) ELSE 0)
  + W_BRIDGE_LA_PREF * (IF HasLA(c) THEN ProbActive(c) ELSE 0)

\* the candidate the inner loop ends with for one disconnected member: the
\* first in configuration order with the greatest utility; {} is None
BestBridgeCandidate(sensor_to_connect_id, final_active_set) ==
  LET cands == { c \in SensorIds(config) :
                   /\ c \notin final_active_set
                   /\ ~is_failed[c]
                   /\ state[c] # DEAD
                   /\ is_connected_to_sink(sensor_to_connect_id,
                                           final_active_set \cup {c}) }
      best == { c \in cands : \A o \in cands : BridgeUtility(c) >= BridgeUtility(o) }
      order == FilterSeq(config.ids, best)
  IN IF order = << >> THEN {} ELSE { Head(order) }

\* "if best_bridge_candidate_id:" : None and the id 0 are both falsy
BridgeAccepted(best) == best # {} /\ best # {0}

\* the first disconnected member, in ascending id, for which a bridge is
\* accepted, with that bridge; << >> when the pass activates nothing
RECURSIVE FirstBridge(_, _)
FirstBridge(sorted_disconnected_sensors, final_active_set) ==
  IF sorted_disconnected_sensors = << >> THEN << >>
  ELSE LET best == BestBridgeCandidate(Head(sorted_disconnected_sensors), final_active_set)
       IN IF ~is_connected_to_sink(Head(sorted_disconnected_sensors), final_active_set)
             /\ BridgeAccepted(best)
          THEN << CHOOSE b \in best : TRUE >>
          ELSE FirstBridge(Tail(sorted_disconnected_sensors), final_active_set)

\* step 3.5 of monitoring_phase: the active set and bridges the loop ends with
RECURSIVE ConnectivityRepair(_, _, _, _)
ConnectivityRepair(trimmed, final_active_set, bridges, k_loop) ==
  LET disconnected == { s \in trimmed : ~is_connected_to_sink(s, final_active_set) }
      found == FirstBridge(SortedSeq(disconnected), final_active_set)
  IN IF k_loop >= Cardinality(SensorIds(config)) \/ disconnected = {} \/ found = << >>
     THEN [ final_active_set |-> final_active_set, bridges |-> bridges ]
     ELSE ConnectivityRepair(trimmed, final_active_set \cup {found[1]},
                             bridges \cup {found[1]}, k_loop + 1)

\* faulty variant: the check after the repair loop left out
NeverDisconnected(trimmed, final_active_set) == FALSE

\* the check after the repair loop
StillDisconnected(trimmed, final_active_set) ==
  /\ config.poi_ids # << >>
  /\ \E s \in trimmed : ~is_connected_to_sink(s, final_active_set)

\* step 3.7: W = min(time slice, least energy in the operational set)
WorkingTime(final_cs) ==
  IF final_cs = {} THEN 0
  ELSE LET energies == { current_energy[s] : s \in { x \in final_cs : current_energy[x] > NEAR_ZERO } }
           least == IF energies = {} THEN 0
                    ELSE CHOOSE e \in energies : \A o \in energies : e <= o
           w == Min(config.time_slice, least)
       IN IF w < NEAR_ZERO THEN 0 ELSE w

\* faulty variant: only a strictly smaller set is rewarded
RewardOnlyImprovement(final_cs) == IF final_cs # {} /\ config.reward_method = "cardinality" THEN [ reward |-> Cardinality(final_cs) < min_Th_cardinality_observed, th |-> Min(Cardinality(final_cs), min_Th_cardinality_observed), eth |-> max_Eth_remaining_energy_observed ] ELSE [ reward |-> FALSE, th |-> min_Th_cardinality_observed, eth |-> max_Eth_remaining_energy_observed ]

\* step 3.8: is the operational set rewarded, and the thresholds afterwards
RewardDecision(final_cs) ==
  LET card == Cardinality(final_cs)
      energy == SumOver(current_energy, final_cs)
  IN IF final_cs = {}
     THEN [ reward |-> FALSE, th |-> min_Th_cardinality_observed,
            eth |-> max_Eth_remaining_energy_observed ]
     ELSE IF config.reward_method = "cardinality"
     THEN [ reward |-> card <= min_Th_cardinality_observed,
            th |-> Min(card, min_Th_cardinality_observed),
            eth |-> max_Eth_remaining_energy_observed ]
     ELSE IF config.reward_method = "energy"
     THEN [ reward |-> energy >= max_Eth_remaining_energy_observed,
            th |-> min_Th_cardinality_observed,
            eth |-> Max(energy, max_Eth_remaining_energy_observed) ]
     ELSE [ reward |-> FALSE, th |-> min_Th_cardinality_observed,
            eth |-> max_Eth_remaining_energy_observed ]

\* a member of a rewarded set is passed over when every POI it covered (by the
\* last global coverage update) was advertised by another member
LocallyRedundantWithinCs(s, final_cs) ==
  LET covered == { p \in PoiIds(config) : s \in covered_by_sensors[p] }
  IN /\ covered # {}
     /\ \A p \in covered :
          \E n \in neighbor_poi_coverage[s].heard :
            n \in final_cs /\ n # s /\ p \in neighbor_poi_coverage[s].cov[n]

RewardedSensors(final_cs) ==
  IF RewardDecision(final_cs).reward
  THEN { s \in final_cs : HasLA(s) /\ ~LocallyRedundantWithinCs(s, final_cs) }
  ELSE {}

\* everything monitoring_phase decides for one formed and one trimmed cover set
MonitoringOutcome(cover_set, trimmed) ==
  LET uncovered == { p \in PoiIds(config) : ~ \E s \in cover_set : CanSense(s, p) }
      has_pois == config.poi_ids # << >>
      start == trimmed \cup {config.sink_id}
      rep == ConnectivityRepair(trimmed, start, {}, 0)
      final_cs == (trimmed \cup rep.bridges) \ {config.sink_id}
      base == [ lost |-> TRUE, cover_set |-> cover_set, trimmed |-> {},
                final_active_set |-> {}, bridges |-> {}, final_cs |-> {}, W |-> 0 ]
  IN IF uncovered # {} /\ cover_set = {} /\ has_pois THEN base
     ELSE IF trimmed = {} /\ has_pois THEN base
     ELSE IF StillDisconnected(trimmed, rep.final_active_set)
     THEN [ base EXCEPT !.trimmed = trimmed,
                        !.final_active_set = rep.final_active_set,
                        !.bridges = rep.bridges ]
     ELSE IF final_cs = {} /\ has_pois
     THEN [ base EXCEPT !.trimmed = trimmed,
                        !.final_active_set = rep.final_active_set,
                        !.bridges = rep.bridges ]
     ELSE [ lost |-> FALSE, cover_set |-> cover_set, trimmed |-> trimmed,
            final_active_set |-> rep.final_active_set, bridges |-> rep.bridges,
            final_cs |-> final_cs, W |-> WorkingTime(final_cs) ]

MonitoringOutcomes ==
  UNION { { MonitoringOutcome(cs, tr) : tr \in trim_cover_set(cs) } :
          cs \in FormCoverSet({}, PoiIds(config), 0) }

\* ------------------------------------------------------------- routing.py
W_ENERGY_NODE == 1
EnergyCostDigits == 3

\* 1.0 / current_energy of the next node, in units of 1e-2 (0 for the sink,
\* whose energy is infinite); only called above the 1e-6 guard
cost_component_energy(e) ==
  IF e = Inf THEN 0
  ELSE (CostScale \div e) * Pow10(EnergyCostDigits)
       + LongDiv(CostScale % e, e, EnergyCostDigits)

\* a path cost is the pair <<sum of 1/energy, sum of transmission costs>>:
\* the transmission term (weight 0.1, values near 1e-6) only decides between
\* paths whose energy terms are equal
CostLess(a, b) == TupleLess(a, b)
InfCost == << Inf, 0 >>

\* faulty variant: the queue is served by node id, whatever the cost
HeapByNodeId(priority_queue) == CHOOSE x \in priority_queue : \A y \in priority_queue : x.node <= y.node

\* the entry heapq.heappop returns: least (cost, node id)
HeapMin(priority_queue) ==
  CHOOSE x \in priority_queue :
    \A y \in priority_queue :
      ~TupleLess(<<y.cost[1], y.cost[2], y.node>>, <<x.cost[1], x.cost[2], x.node>>)

\* the while loop of the Dijkstra search; << >> is None
RECURSIVE DijkstraLoop(_, _, _, _)
DijkstraLoop(priority_queue, min_costs, energy, active_sensor_ids_for_path) ==
  IF priority_queue = {} THEN << >>
  ELSE
    LET cur == HeapMin(priority_queue)
        rest == priority_queue \ {cur}
        edge(n) == << W_ENERGY_NODE * cost_component_energy(energy[n]),
                      communication_tx_cost(4 * DistSq(config.pos[cur.node], config.pos[n])) >>
        new_cost(n) == << cur.cost[1] + edge(n)[1], cur.cost[2] + edge(n)[2] >>
        relaxed == { n \in Range(neighbors[cur.node]) :
                       /\ n \in active_sensor_ids_for_path
                       /\ ~is_failed[n]
                       /\ energy[n] > ROUTE_MIN_ENERGY
                       /\ CostLess(new_cost(n), min_costs[n]) }
    IN IF cur.node = config.sink_id THEN cur.path
       ELSE IF CostLess(min_costs[cur.node], cur.cost)
       THEN DijkstraLoop(rest, min_costs, energy, active_sensor_ids_for_path)
       ELSE DijkstraLoop(
              rest \cup { [ cost |-> new_cost(n), node |-> n,
                            path |-> Append(cur.path, n) ] : n \in relaxed },
              [ n \in SensorIds(config) |->
                  IF n \in relaxed THEN new_cost(n) ELSE min_costs[n] ],
              energy, active_sensor_ids_for_path)

find_shortest_path_to_sink_dijkstra_energy_aware(energy, st, start_node_id, active_sensor_ids_for_path) ==
  IF is_failed[start_node_id] \/ start_node_id \notin active_sensor_ids_for_path
  THEN IF start_node_id = config.sink_id /\ ~is_failed[config.sink_id]
          /\ st[config.sink_id] = ACTIVE
       THEN << start_node_id >> ELSE << >>
  ELSE IF start_node_id = config.sink_id THEN << start_node_id >>
  ELSE DijkstraLoop(
         { [ cost |-> <<0, 0>>, node |-> start_node_id, path |-> <<start_node_id>> ] },
         [ n \in SensorIds(config) |-> IF n = start_node_id THEN <<0, 0>> ELSE InfCost ],
         energy, active_sensor_ids_for_path)

\* ------------------------------------------------- communication_model.py
NoHop == -1

\* Packet(...) as generate_poi_reports builds it; serial stands for the
\* identity of the Python object
NewPacket(serial, source_id, poi_id, creation_time) ==
  [ serial |-> serial, source_id |-> source_id, destination_id |-> config.sink_id,
    current_hop_id |-> source_id, next_hop_id |-> NoHop,
    path_taken |-> << source_id >>, latency |-> 0,
    creation_time |-> creation_time, poi_id |-> poi_id ]

\* faulty variant: the loss draw can succeed whatever the probability
AlwaysLossy == { TRUE, FALSE }

\* the outcomes of "random.random() < packet_loss_probability"
LossOutcomes == IF config.packet_loss THEN { TRUE, FALSE } ELSE { FALSE }

\* faulty variant: the path is not updated
PathLeftAlone(packet, sender_id, receiver_id) == packet.path_taken

\* the path_taken bookkeeping of a transmitted packet
PathAfterHop(packet, sender_id, receiver_id) ==
  LET p == packet.path_taken
      p1 == IF p = << >> \/ p[Len(p)] # sender_id
            THEN (IF p = << >> /\ packet.source_id = sender_id THEN << sender_id >>
                  ELSE IF p # << >> /\ p[Len(p)] # sender_id THEN Append(p, sender_id)
                  ELSE p)
            ELSE p
  IN IF p1[Len(p1)] # receiver_id THEN Append(p1, receiver_id) ELSE p1

\* faulty variant: the range check never refuses
NeverOutOfRange(sender_id, receiver_id) == FALSE

\* "distance > sender.comm_range"
OutOfRange(sender_id, receiver_id) ==
  DistSq(config.pos[sender_id], config.pos[receiver_id])
    > config.comm_range[sender_id] * config.comm_range[sender_id]

\* CommunicationManager.send_packet on the energies e, states st and buffers
\* buf, with the loss draw as an input; returns the new e, st, buf, the
\* (mutated) packet, the success flag and the status word
send_packet(e, st, buf, sender_id, packet, receiver_id, lost) ==
  LET fail(e1, st1, pk, why) ==
        [ e |-> e1, st |-> st1, buf |-> buf, packet |-> pk, ok |-> FALSE, status |-> why ]
      probe == update_energy(e[sender_id], st[sender_id], IsSink(config, sender_id),
                             NoneVal, communication_tx_cost(0))
      afterProbe(why) ==
        fail([e EXCEPT ![sender_id] = probe.energy],
             [st EXCEPT ![sender_id] = probe.state], packet, why)
      dsq == DistSq(config.pos[sender_id], config.pos[receiver_id])
      tx == update_energy(e[sender_id], st[sender_id], IsSink(config, sender_id),
                          NoneVal, communication_tx_cost(4 * dsq))
      e1 == [e EXCEPT ![sender_id] = tx.energy]
      st1 == [st EXCEPT ![sender_id] = tx.state]
      rx == update_energy(e1[receiver_id], st1[receiver_id], IsSink(config, receiver_id),
                          NoneVal, communication_rx_cost)
      e2 == [e1 EXCEPT ![receiver_id] = rx.energy]
      st2 == [st1 EXCEPT ![receiver_id] = rx.state]
      moved == [ packet EXCEPT !.current_hop_id = receiver_id,
                               !.path_taken = PathAfterHop(packet, sender_id, receiver_id),
                               !.latency = packet.latency + 1 ]
  IN IF sender_id \notin SensorIds(config) THEN fail(e, st, packet, "SENDER_NOT_FOUND")
     ELSE IF is_failed[sender_id] THEN fail(e, st, packet, "SENDER_FAILED")
     ELSE IF st[sender_id] = DEAD THEN fail(e, st, packet, "SENDER_DEAD")
     ELSE IF st[sender_id] = SLEEPING THEN fail(e, st, packet, "SENDER_ASLEEP")
     ELSE IF receiver_id \notin SensorIds(config) THEN afterProbe("RECEIVER_NOT_FOUND")
     ELSE IF is_failed[receiver_id] THEN afterProbe("RECEIVER_FAILED")
     ELSE IF st[receiver_id] = DEAD THEN afterProbe("RECEIVER_DEAD")
     ELSE IF st[receiver_id] = SLEEPING THEN afterProbe("RECEIVER_ASLEEP")
     ELSE IF OutOfRange(sender_id, receiver_id) THEN fail(e, st, packet, "OUT_OF_RANGE")
     ELSE IF tx.state = DEAD THEN fail(e1, st1, packet, "SENDER_DIED_DURING_TX")
     ELSE IF lost THEN fail(e1, st1, packet, "PACKET_LOST_IN_TRANSIT")
     ELSE IF rx.state # DEAD /\ ~is_failed[receiver_id]
     THEN [ e |-> e2, st |-> st2,
            buf |-> [buf EXCEPT ![receiver_id] = Append(@, moved)],
            packet |-> moved, ok |-> TRUE, status |-> "DELIVERED_TO_RECEIVER_BUFFER" ]
     ELSE fail(e2, st2, moved, "RECEIVER_DIED_OR_FAILED_UPON_RX")

\* --------------------------------------------------- broadcast_message
\* faulty variant: sleeping, dead and failed neighbours hear the broadcast too
HearsAlways(st, r) == TRUE

\* the receiver checks of broadcast_message
CanHearBroadcast(st, r) == ~is_failed[r] /\ st[r] # DEAD /\ st[r] # SLEEPING

\* the receiver loop of broadcast_message: every table/energy result the
\* per-receiver loss draws allow.  n is [e, st, npc, count, handled]: the
\* energies, states and neighbour tables, successful_sends, and the receivers
\* whose handle_broadcast_message ran
RECURSIVE BroadcastReceivers(_, _, _, _)
BroadcastReceivers(n, sender_id, covered_poi_ids, receivers) ==
  IF receivers = << >> THEN { n }
  ELSE
    LET r == Head(receivers)
        rx == update_energy(n.e[r], n.st[r], IsSink(config, r), NoneVal,
                            communication_rx_cost)
        paid == [ n EXCEPT !.e[r] = rx.energy, !.st[r] = rx.state ]
        heard == [ paid EXCEPT !.npc[r] =
                     [ heard |-> @.heard \cup {sender_id},
                       cov |-> [ @.cov EXCEPT ![sender_id] = covered_poi_ids ] ],
                                !.count = @ + 1,
                                !.handled = @ \cup {r} ]
        got == IF rx.state = DEAD THEN paid ELSE heard
    IN IF ~CanHearBroadcast(n.st, r)
       THEN BroadcastReceivers(n, sender_id, covered_poi_ids, Tail(receivers))
       ELSE UNION { BroadcastReceivers(IF lost THEN n ELSE got, sender_id,
                                       covered_poi_ids, Tail(receivers)) :
                    lost \in LossOutcomes }

broadcast_message(n, sender_id, covered_poi_ids) ==
  LET start == [ e |-> n.e, st |-> n.st, npc |-> n.npc, count |-> 0, handled |-> {} ]
      tx == update_energy(n.e[sender_id], n.st[sender_id], IsSink(config, sender_id),
                          NoneVal,
                          communication_tx_cost(config.comm_range[sender_id]
                                                * config.comm_range[sender_id]))
      sent == [ start EXCEPT !.e[sender_id] = tx.energy, !.st[sender_id] = tx.state ]
  IN IF sender_id \notin SensorIds(config) THEN { start }
     ELSE IF is_failed[sender_id] \/ n.st[sender_id] = DEAD \/ n.st[sender_id] = SLEEPING
     THEN { start }
     ELSE IF tx.state = DEAD THEN { sent }
     ELSE BroadcastReceivers(sent, sender_id, covered_poi_ids, neighbors[sender_id])

\* the sensor loop of broadcast_poi_coverage_info
RECURSIVE BroadcastLoop(_, _)
BroadcastLoop(n, order) ==
  IF order = << >> THEN { n }
  ELSE
    LET s == Head(order)
        currently_covering_poi_ids == { p \in PoiIds(config) : s \in covered_by_sensors[p] }
    IN IF n.st[s] = ACTIVE /\ ~IsSink(config, s) /\ ~is_failed[s]
          /\ currently_covering_poi_ids # {}
       THEN UNION { BroadcastLoop([ e |-> m.e, st |-> m.st, npc |-> m.npc ], Tail(order)) :
                    m \in broadcast_message(n, s, currently_covering_poi_ids) }
       ELSE BroadcastLoop(n, Tail(order))

\* ------------------------------------------------- generate_poi_reports
\* the first monitored POI of a sensor that qualifies for a report ({} if none)
FirstQualifyingPoi(s, current_poi_coverage_map) ==
  LET ok == { i \in 1..Len(monitored_pois[s]) :
                /\ CanSense(s, monitored_pois[s][i])
                /\ current_poi_coverage_map[monitored_pois[s][i]] >= K_COVERAGE_LEVEL }
  IN IF ok = {} THEN {}
     ELSE { monitored_pois[s][CHOOSE i \in ok : \A j \in ok : i <= j] }

\* faulty variant: no break, one packet per qualifying POI
AllQualifyingPois(s, current_poi_coverage_map) ==
  { p \in Range(monitored_pois[s]) :
      CanSense(s, p) /\ current_poi_coverage_map[p] >= K_COVERAGE_LEVEL }

\* the POIs a reporting sensor writes a packet for
ReportedPois(s, current_poi_coverage_map) ==
  FirstQualifyingPoi(s, current_poi_coverage_map)

RECURSIVE PacketsFor(_, _, _)
PacketsFor(s, pois, serial) ==
  IF pois = << >> THEN << >>
  ELSE << NewPacket(serial + 1, s, Head(pois), current_round) >>
       \o PacketsFor(s, Tail(pois), serial + 1)

\* the sensor loop of generate_poi_reports; g is [buf, generated]
RECURSIVE ReportLoop(_, _, _)
ReportLoop(g, order, current_poi_coverage_map) ==
  IF order = << >> THEN g
  ELSE
    LET s == Head(order)
        pois == FilterSeq(monitored_pois[s], ReportedPois(s, current_poi_coverage_map))
        made == PacketsFor(s, pois, g.generated)
    IN IF state[s] = ACTIVE /\ ~is_failed[s] /\ ~IsSink(config, s)
       THEN ReportLoop([ buf |-> [ g.buf EXCEPT ![s] = @ \o made ],
                         generated |-> g.generated + Len(made) ],
                       Tail(order), current_poi_coverage_map)
       ELSE ReportLoop(g, Tail(order), current_poi_coverage_map)

\* --------------------------------------------------- route_data_to_sink
RemoveAt(s, idx) ==
  LET keep == { i \in 1..Len(s) : i \notin idx }
      F[i \in 0..Len(s)] ==
        IF i = 0 THEN << >>
        ELSE IF i \in keep THEN Append(F[i - 1], s[i]) ELSE F[i - 1]
  IN F[Len(s)]

\* faulty variant: a forwarded packet is left in the sender's buffer
NeverRemoved(sent_successfully) == FALSE

\* faulty variant: a packet is dropped after any attempt to send it
RemovedAfterAttempt(sent_successfully) == TRUE

\* does a successful hop take the packet out of the sender's buffer
RemovedAfterSend(sent_successfully) == sent_successfully

\* the packet loop of one sender: packet i of the buffer it had when its turn
\* came; r is [e, st, buf, delivered, latency, log]
RECURSIVE RoutePackets(_, _, _, _, _, _)
RoutePackets(r, s_id, i, count, to_remove, active) ==
  IF i > count
  THEN { [ r EXCEPT !.buf[s_id] = RemoveAt(@, to_remove) ] }
  ELSE
    LET packet == r.buf[s_id][i]
        path_to_sink == find_shortest_path_to_sink_dijkstra_energy_aware(
                          r.e, r.st, s_id, active)
        next_hop_id == path_to_sink[2]
        routed == [ packet EXCEPT !.next_hop_id = next_hop_id ]
        entry(why, hop) == [ serial |-> packet.serial, holder |-> s_id,
                             next_hop |-> hop, status |-> why ]
        after(lost) ==
          LET o == send_packet(r.e, r.st, r.buf, s_id, routed, next_hop_id, lost)
              at_sink == o.ok /\ next_hop_id = config.sink_id
          IN [ r EXCEPT
                 !.e = o.e, !.st = o.st,
                 !.buf = [ o.buf EXCEPT ![s_id][i] = o.packet ],
                 !.delivered = @ + BoolInt(at_sink),
                 !.latency = @ + (IF at_sink
                                  THEN 10 * (current_round - o.packet.creation_time)
                                       + o.packet.latency
                                  ELSE 0),
                 !.log = Append(@, entry(o.status, next_hop_id)) ]
        removed(lost) ==
          IF RemovedAfterSend(send_packet(r.e, r.st, r.buf, s_id, routed,
                                          next_hop_id, lost).ok)
          THEN to_remove \cup {i} ELSE to_remove
    IN IF packet.destination_id # config.sink_id
       THEN RoutePackets(r, s_id, i + 1, count, to_remove \cup {i}, active)
       ELSE IF Len(path_to_sink) > 1
       THEN UNION { RoutePackets(after(lost), s_id, i + 1, count, removed(lost), active) :
                    lost \in LossOutcomes }
       ELSE RoutePackets([ r EXCEPT !.log = Append(@, entry("NO_PATH", NoHop)) ],
                         s_id, i + 1, count, to_remove, active)

\* the sensor loop of route_data_to_sink, in the order of the sensors dict
RECURSIVE RouteLoop(_, _, _)
RouteLoop(r, order, active) ==
  IF order = << >> THEN { r }
  ELSE
    LET s == Head(order)
    IN IF IsSink(config, s) \/ r.st[s] # ACTIVE \/ is_failed[s] \/ r.buf[s] = << >>
       THEN RouteLoop(r, Tail(order), active)
       ELSE UNION { RouteLoop(m, Tail(order), active) :
                    m \in RoutePackets(r, s, 1, Len(r.buf[s]), {}, active) }

\* ------------------------------------------------------- run_one_round
\* run_one_round up to and including network_setup_phase
StartRound ==
  /\ UNCHANGED last_call
  /\ pc = "idle"
  /\ current_round < MaxRounds
  /\ current_round' = current_round + 1
  /\ IF is_first_iteration
     THEN /\ la' = [ s \in DOMAIN la |-> initialize_probabilities ]
          /\ neighbors' = DiscoverNeighbors(config, is_failed, state)
          /\ monitored_pois' = DiscoverPois(config, is_failed, state)
          /\ min_Th_cardinality_observed' = Inf
          /\ max_Eth_remaining_energy_observed' = 0
          /\ is_first_iteration' = FALSE
     ELSE UNCHANGED << la, neighbors, monitored_pois, min_Th_cardinality_observed,
                       max_Eth_remaining_energy_observed, is_first_iteration >>
  /\ routing_log' = << >>
  /\ pc' = "failures"
  /\ UNCHANGED << config, current_energy, state, is_failed, neighbor_poi_coverage,
                  data_buffer, covered_by_sensors, total_packets_generated,
                  total_packets_delivered_to_sink, total_latency, coverage_lost,
                  final_cs_ids, working_time, monitoring_log, stats >>

\* the sensors whose failure draw can come out below the failure probability
FailureCandidates ==
  IF config.failures
  THEN { s \in NonSink(config) : ~is_failed[s] /\ state[s] # DEAD }
  ELSE {}

HandleSensorFailures ==
  /\ UNCHANGED last_call
  /\ pc = "failures"
  /\ \E failing \in SUBSET FailureCandidates :
       /\ is_failed' = [ s \in SensorIds(config) |-> is_failed[s] \/ s \in failing ]
       /\ state' = [ s \in SensorIds(config) |-> IF s \in failing THEN DEAD ELSE state[s] ]
       /\ IF failing # {}
          THEN /\ neighbors' = DiscoverNeighbors(config, is_failed', state')
               /\ monitored_pois' = DiscoverPois(config, is_failed', state')
          ELSE UNCHANGED << neighbors, monitored_pois >>
  /\ pc' = "learning"
  /\ UNCHANGED << config, current_round, current_energy, neighbor_poi_coverage, la,
                  data_buffer, covered_by_sensors, total_packets_generated,
                  total_packets_delivered_to_sink, total_latency,
                  min_Th_cardinality_observed, max_Eth_remaining_energy_observed,
                  is_first_iteration, coverage_lost, final_cs_ids, working_time,
                  monitoring_log, routing_log, stats >>

total_network_energy ==
  SumOver(current_energy,
          { s \in NonSink(config) : Alive(s) /\ current_energy[s] > 0 })

\* faulty variant: an automaton rewarded in the last round keeps what the
\* reward left
KeptWhenRewarded(s) == IF s \in monitoring_log.rewarded THEN la[s] ELSE set_probabilities_based_on_energy_ratio(0)

\* steps 2.1 and 2.2: the probabilities learning_phase gives one automaton
LearnedProbabilities(s) ==
  IF total_network_energy <= NEAR_ZERO
  THEN set_probabilities_based_on_energy_ratio(0)
  ELSE set_probabilities_based_on_energy_ratio(
         IF current_energy[s] > 0
         THEN Ratio(current_energy[s], total_network_energy) ELSE 0)

LearningPhase ==
  /\ UNCHANGED last_call
  /\ pc = "learning"
  /\ la' = [ s \in DOMAIN la |-> LearnedProbabilities(s) ]
  /\ pc' = "monitoring"
  /\ UNCHANGED << config, current_round, current_energy, state, is_failed, neighbors,
                  monitored_pois, neighbor_poi_coverage, data_buffer,
                  covered_by_sensors, total_packets_generated,
                  total_packets_delivered_to_sink, total_latency,
                  min_Th_cardinality_observed, max_Eth_remaining_energy_observed,
                  is_first_iteration, coverage_lost, final_cs_ids, working_time,
                  monitoring_log, routing_log, stats >>

\* faulty variant: a successful monitoring phase clears the flag
CoverageLostCleared(lost) == lost

\* the value monitoring_phase leaves in coverage_lost
CoverageLostAfter(lost) == coverage_lost \/ lost

MonitoringPhase ==
  /\ UNCHANGED last_call
  /\ pc = "monitoring"
  /\ \E o \in MonitoringOutcomes :
       /\ coverage_lost' = CoverageLostAfter(o.lost)
       /\ final_cs_ids' = IF o.lost THEN NoCoverSet ELSE CoverSet(o.final_cs)
       /\ working_time' = o.W
       /\ min_Th_cardinality_observed' =
            IF o.lost THEN min_Th_cardinality_observed ELSE RewardDecision(o.final_cs).th
       /\ max_Eth_remaining_energy_observed' =
            IF o.lost THEN max_Eth_remaining_energy_observed
            ELSE RewardDecision(o.final_cs).eth
       /\ la' = [ s \in DOMAIN la |->
                    IF ~o.lost /\ s \in o.final_cs
                    THEN update_probabilities_LRI(la[s], ACTION_ACTIVE_IDX,
                                                  s \in RewardedSensors(o.final_cs))
                    ELSE la[s] ]
       /\ monitoring_log' =
            [ cover_set |-> o.cover_set, trimmed |-> o.trimmed,
              final_active_set |-> o.final_active_set, bridges |-> o.bridges,
              returned |-> ~o.lost,
              rewarded |-> IF o.lost THEN {} ELSE RewardedSensors(o.final_cs) ]
  /\ pc' = "update"
  /\ UNCHANGED << config, current_round, current_energy, state, is_failed, neighbors,
                  monitored_pois, neighbor_poi_coverage, data_buffer,
                  covered_by_sensors, total_packets_generated,
                  total_packets_delivered_to_sink, total_latency, is_first_iteration,
                  routing_log, stats >>

\* step 4.1 of update_phase: the cover set pays the working time
AfterWorkingTime(s) ==
  IF ~final_cs_ids.none /\ final_cs_ids.ids # {} /\ working_time > NEAR_ZERO
     /\ s \in final_cs_ids.ids
  THEN update_energy(current_energy[s], state[s], IsSink(config, s), NoneVal, working_time)
  ELSE [ energy |-> current_energy[s], state |-> state[s] ]

\* faulty variant: step 4.2 looks at the energy only
DeadOnlyWhenDrained(s, energy) == energy <= NEAR_ZERO

\* "is_failed or current_energy <= 1e-9" of step 4.2
DeadInUpdate(s, energy) == is_failed[s] \/ energy <= NEAR_ZERO

\* faulty variant: a sensor put to sleep pays nothing
FinalWithoutSleepCost(s) == IF IsSink(config, s) THEN [ energy |-> AfterWorkingTime(s).energy, state |-> ACTIVE ] ELSE IF DeadInUpdate(s, AfterWorkingTime(s).energy) THEN [ energy |-> AfterWorkingTime(s).energy, state |-> DEAD ] ELSE IF ~final_cs_ids.none /\ s \in final_cs_ids.ids THEN [ energy |-> AfterWorkingTime(s).energy, state |-> ACTIVE ] ELSE [ energy |-> AfterWorkingTime(s).energy, state |-> SLEEPING ]

\* step 4.2 of update_phase for one sensor: its final energy and state
FinalInUpdate(s) ==
  LET w == AfterWorkingTime(s)
  IN IF IsSink(config, s) THEN [ energy |-> w.energy, state |-> ACTIVE ]
     ELSE IF DeadInUpdate(s, w.energy) THEN [ energy |-> w.energy, state |-> DEAD ]
     ELSE IF ~final_cs_ids.none /\ s \in final_cs_ids.ids
     THEN [ energy |-> w.energy, state |-> ACTIVE ]
     ELSE update_energy(w.energy, SLEEPING, FALSE, SLEEPING, 0)

UpdatePhase ==
  /\ UNCHANGED last_call
  /\ pc = "update"
  /\ current_energy' = [ s \in SensorIds(config) |-> FinalInUpdate(s).energy ]
  /\ state' = [ s \in SensorIds(config) |-> FinalInUpdate(s).state ]
  /\ pc' = "poi_coverage"
  /\ UNCHANGED << config, current_round, is_failed, neighbors, monitored_pois,
                  neighbor_poi_coverage, la, data_buffer, covered_by_sensors,
                  total_packets_generated, total_packets_delivered_to_sink,
                  total_latency, min_Th_cardinality_observed,
                  max_Eth_remaining_energy_observed, is_first_iteration,
                  coverage_lost, final_cs_ids, working_time, monitoring_log,
                  routing_log, stats >>

\* the ACTIVE, not failed sensors (the sink among them)
ActiveSensorIds == { s \in SensorIds(config) : state[s] = ACTIVE /\ ~is_failed[s] }

UpdatePoiCoverageObjects ==
  /\ UNCHANGED last_call
  /\ pc = "poi_coverage"
  /\ covered_by_sensors' =
       [ p \in PoiIds(config) |->
           { s \in ActiveSensorIds : ~is_failed[s] /\ CanSense(s, p) } ]
  /\ pc' = "broadcast"
  /\ UNCHANGED << config, current_round, current_energy, state, is_failed, neighbors,
                  monitored_pois, neighbor_poi_coverage, la, data_buffer,
                  total_packets_generated, total_packets_delivered_to_sink,
                  total_latency, min_Th_cardinality_observed,
                  max_Eth_remaining_energy_observed, is_first_iteration,
                  coverage_lost, final_cs_ids, working_time, monitoring_log,
                  routing_log, stats >>

\* faulty variant: reporting and routing run whenever POIs exist
ReportWheneverPois == config.poi_ids # << >>

\* "if final_cs_ids is not None and self.pois" of run_one_round
ShouldReport == ~final_cs_ids.none /\ config.poi_ids # << >>

BroadcastPoiCoverageInfo ==
  /\ UNCHANGED last_call
  /\ pc = "broadcast"
  /\ IF current_round % config.poi_broadcast_interval # 0
     THEN UNCHANGED << current_energy, state, neighbor_poi_coverage >>
     ELSE \E n \in BroadcastLoop([ e |-> current_energy, st |-> state,
                                   npc |-> neighbor_poi_coverage ], config.ids) :
            /\ current_energy' = n.e
            /\ state' = n.st
            /\ neighbor_poi_coverage' = n.npc
  /\ pc' = IF ShouldReport THEN "reports" ELSE "statistics"
  /\ UNCHANGED << config, current_round, is_failed, neighbors, monitored_pois, la,
                  data_buffer, covered_by_sensors, total_packets_generated,
                  total_packets_delivered_to_sink, total_latency,
                  min_Th_cardinality_observed, max_Eth_remaining_energy_observed,
                  is_first_iteration, coverage_lost, final_cs_ids, working_time,
                  monitoring_log, routing_log, stats >>

GeneratePoiReports ==
  /\ UNCHANGED last_call
  /\ pc = "reports"
  /\ LET g == ReportLoop([ buf |-> data_buffer, generated |-> total_packets_generated ],
                         config.ids, get_poi_coverage_map(ActiveSensorIds))
     IN /\ data_buffer' = g.buf
        /\ total_packets_generated' = g.generated
  /\ pc' = "routing"
  /\ UNCHANGED << config, current_round, current_energy, state, is_failed, neighbors,
                  monitored_pois, neighbor_poi_coverage, la, covered_by_sensors,
                  total_packets_delivered_to_sink, total_latency,
                  min_Th_cardinality_observed, max_Eth_remaining_energy_observed,
                  is_first_iteration, coverage_lost, final_cs_ids, working_time,
                  monitoring_log, routing_log, stats >>

RouteDataToSink ==
  /\ UNCHANGED last_call
  /\ pc = "routing"
  /\ IF ActiveSensorIds = {}
     THEN UNCHANGED << current_energy, state, data_buffer,
                       total_packets_delivered_to_sink, total_latency, routing_log >>
     ELSE \E r \in RouteLoop([ e |-> current_energy, st |-> state, buf |-> data_buffer,
                               delivered |-> total_packets_delivered_to_sink,
                               latency |-> total_latency, log |-> routing_log ],
                             config.ids, ActiveSensorIds) :
            /\ current_energy' = r.e
            /\ state' = r.st
            /\ data_buffer' = r.buf
            /\ total_packets_delivered_to_sink' = r.delivered
            /\ total_latency' = r.latency
            /\ routing_log' = r.log
  /\ pc' = "statistics"
  /\ UNCHANGED << config, current_round, is_failed, neighbors, monitored_pois,
                  neighbor_poi_coverage, la, covered_by_sensors,
                  total_packets_generated, min_Th_cardinality_observed,
                  max_Eth_remaining_energy_observed, is_first_iteration,
                  coverage_lost, final_cs_ids, working_time, monitoring_log, stats >>

\* faulty variant: the ACTIVE list taken over all sensors, the sink included
active_sensors_list_with_sink ==
  { s \in SensorIds(config) : state[s] = ACTIVE /\ ~is_failed[s] }

\* the three lists collect_round_statistics counts
active_non_sink_sensors_list ==
  { s \in NonSink(config) : state[s] = ACTIVE /\ ~is_failed[s] }
sleep_non_sink_sensors_list ==
  { s \in NonSink(config) : state[s] = SLEEPING /\ ~is_failed[s] }
dead_or_failed_sensors_list ==
  { s \in SensorIds(config) : state[s] = DEAD \/ is_failed[s] }

calculate_q_coverage_count ==
  Cardinality({ p \in PoiIds(config) :
                  Cardinality(covered_by_sensors[p]) >= K_COVERAGE_LEVEL })

\* faulty variant: the ratio is computed without the guard for an empty POI list
QCoverageUnguarded == (calculate_q_coverage_count * ONE) \div Max(Len(config.poi_ids), 1)

\* calculate_q_coverage, in millionths
calculate_q_coverage ==
  IF config.poi_ids = << >> THEN ONE
  ELSE (calculate_q_coverage_count * ONE) \div Len(config.poi_ids)

CollectRoundStatistics ==
  /\ UNCHANGED last_call
  /\ pc = "statistics"
  /\ stats' = [ round |-> current_round,
                active_sensors |-> Cardinality(active_non_sink_sensors_list),
                sleep_sensors |-> Cardinality(sleep_non_sink_sensors_list),
                dead_sensors |-> Cardinality(dead_or_failed_sensors_list),
                covered_pois |-> calculate_q_coverage_count,
                coverage_q_k |-> calculate_q_coverage,
                generated |-> total_packets_generated,
                delivered |-> total_packets_delivered_to_sink,
                latency |-> total_latency ]
  /\ pc' = "idle"
  /\ UNCHANGED << config, current_round, current_energy, state, is_failed, neighbors,
                  monitored_pois, neighbor_poi_coverage, la, data_buffer,
                  covered_by_sensors, total_packets_generated,
                  total_packets_delivered_to_sink, total_latency,
                  min_Th_cardinality_observed, max_Eth_remaining_energy_observed,
                  is_first_iteration, coverage_lost, final_cs_ids, working_time,
                  monitoring_log, routing_log >>

\* get_network_lifetime: [none |-> TRUE] is None
get_network_lifetime ==
  IF \A s \in SensorIds(config) : state[s] = DEAD
  THEN [ none |-> FALSE, round |-> current_round ]
  ELSE IF { s \in SensorIds(config) : state[s] = ACTIVE } = {}
  THEN [ none |-> FALSE, round |-> current_round ]
  ELSE [ none |-> TRUE, round |-> 0 ]

Next ==
  \/ StartRound
  \/ HandleSensorFailures
  \/ LearningPhase
  \/ MonitoringPhase
  \/ UpdatePhase
  \/ UpdatePoiCoverageObjects
  \/ BroadcastPoiCoverageInfo
  \/ GeneratePoiReports
  \/ RouteDataToSink
  \/ CollectRoundStatistics

Spec == Init /\ [][Next]_vars

\* run_simulation calls run_one_round in a loop: while rounds remain the next
\* round is started, and a round that has been started runs through its phases
\* and returns
FairSpec == Spec /\ WF_vars(StartRound) /\ []<>(pc = "idle")

\* ------------------------------------------- the automaton's public calls
\* A LearningAutomaton is an object of its own: any caller may invoke its
\* three public methods in any order with any argument.  AutomatonSpec
\* drives the automata of one freshly constructed network that way.
EnergyRatios == { 0 - ONE, 0, 500, HALF, ONE - 500, ONE, 2 * ONE }
ActionIndices == { ACTION_ACTIVE_IDX, ACTION_SLEEP_IDX }

not_la == << config, pc, current_round, current_energy, state, is_failed,
             neighbors, monitored_pois, neighbor_poi_coverage, data_buffer,
             covered_by_sensors, total_packets_generated,
             total_packets_delivered_to_sink, total_latency,
             min_Th_cardinality_observed, max_Eth_remaining_energy_observed,
             is_first_iteration, coverage_lost, final_cs_ids, working_time,
             monitoring_log, routing_log, stats, last_call >>

AutomatonInit == Init /\ config = LineDeployment(0, FALSE, FALSE)

CallInitializeProbabilities ==
  \E s \in DOMAIN la :
    /\ la' = [la EXCEPT ![s] = initialize_probabilities]
    /\ UNCHANGED not_la

CallSetProbabilities ==
  \E s \in DOMAIN la, energy_ratio \in EnergyRatios :
    /\ la' = [la EXCEPT ![s] = set_probabilities_based_on_energy_ratio(energy_ratio)]
    /\ UNCHANGED not_la

CallUpdateProbabilitiesLRI ==
  \E s \in DOMAIN la, chosen_action_idx \in ActionIndices, is_reward_signal \in BOOLEAN :
    /\ la' = [la EXCEPT ![s] =
                update_probabilities_LRI(la[s], chosen_action_idx, is_reward_signal)]
    /\ UNCHANGED not_la

AutomatonNext ==
  \/ CallInitializeProbabilities
  \/ CallSetProbabilities
  \/ CallUpdateProbabilitiesLRI

AutomatonSpec == AutomatonInit /\ [][AutomatonNext]_vars

\* ------------------------------- the communication manager's public calls
\* send_packet and broadcast_message are public: a caller may hand them any
\* sender, receiver and packet.  MessagingSpec takes the line network with a
\* positive loss probability in the conditions a run can leave it in (each
\* non-sink sensor ACTIVE or SLEEP with some energy left, drained and DEAD, or
\* failed and DEAD; the relay holding a packet it received, or none) and
\* makes one such call.
MissingId == 99
Parties == SensorIds(config) \cup { MissingId }

\* condition k of a non-sink sensor: 1..3 ACTIVE, 4..6 SLEEP (with too
\* little energy for any cost, enough to receive but not to transmit over
\* one spacing, enough for two costs), 7 drained, 8 failed
ConditionEnergy(k) ==
  IF k = 7 THEN 0
  ELSE IF k = 8 THEN 600000
  ELSE IF k % 3 = 1 THEN 200000
  ELSE IF k % 3 = 2 THEN 258000
  ELSE 600000
ConditionState(k) == IF k <= 3 THEN ACTIVE ELSE IF k <= 6 THEN SLEEPING ELSE DEAD

\* the report of sensor 2 after its hop to the relay, sensor 1
ReceivedPacket ==
  [ NewPacket(1, 2, 10, 1) EXCEPT !.current_hop_id = 1, !.next_hop_id = 1,
                                  !.path_taken = << 2, 1 >>, !.latency = 1 ]

MessagingInit ==
  /\ config = LineDeployment(0, TRUE, TRUE)
  /\ pc = "idle"
  /\ current_round = 1
  /\ \E cond \in [ NonSink(config) -> 1..8 ] :
       /\ current_energy = [ s \in SensorIds(config) |->
                               IF IsSink(config, s) THEN Inf ELSE ConditionEnergy(cond[s]) ]
       /\ state = [ s \in SensorIds(config) |->
                      IF IsSink(config, s) THEN ACTIVE ELSE ConditionState(cond[s]) ]
       /\ is_failed = [ s \in SensorIds(config) |-> ~IsSink(config, s) /\ cond[s] = 8 ]
  /\ neighbors = DiscoverNeighbors(config, is_failed,
                                   [ s \in SensorIds(config) |-> SLEEPING ])
  /\ monitored_pois = DiscoverPois(config, is_failed,
                                   [ s \in SensorIds(config) |-> SLEEPING ])
  /\ neighbor_poi_coverage = [ s \in SensorIds(config) |-> EmptyCoverage(config) ]
  /\ la = [ s \in NonSink(config) |-> initialize_probabilities ]
  /\ data_buffer \in { [ s \in SensorIds(config) |-> << >> ],
                        [ s \in SensorIds(config) |->
                            IF s = 1 THEN << ReceivedPacket >> ELSE << >> ] }
  /\ covered_by_sensors = [ p \in PoiIds(config) |-> {} ]
  /\ total_packets_generated = 0
  /\ total_packets_delivered_to_sink = 0
  /\ total_latency = 0
  /\ min_Th_cardinality_observed = Inf
  /\ max_Eth_remaining_energy_observed = 0
  /\ is_first_iteration = FALSE
  /\ coverage_lost = FALSE
  /\ final_cs_ids = NoCoverSet
  /\ working_time = 0
  /\ monitoring_log = EmptyMonitoringLog
  /\ routing_log = << >>
  /\ stats = EmptyStats
  /\ last_call = NoCall

\* the packets a sender may be given: a fresh one of any source, or one of
\* those its own buffer holds
PacketsAtHand(sender_id) ==
  { NewPacket(1, src, Head(config.poi_ids), current_round) : src \in SensorIds(config) }
    \cup (IF sender_id \in SensorIds(config) THEN Range(data_buffer[sender_id]) ELSE {})

CallSendPacket ==
  \E sender_id \in Parties, receiver_id \in Parties, lost \in LossOutcomes :
   \E packet \in PacketsAtHand(sender_id) :
    LET o == send_packet(current_energy, state, data_buffer, sender_id, packet,
                         receiver_id, lost)
    IN /\ last_call = NoCall
       /\ sender_id # receiver_id
       /\ current_energy' = o.e
       /\ state' = o.st
       /\ data_buffer' = o.buf
       /\ last_call' = [ op |-> "send_packet", sender_id |-> sender_id,
                         receiver_id |-> receiver_id, packet |-> packet,
                         lost |-> lost, ok |-> o.ok, status |-> o.status,
                         packet_after |-> o.packet ]
       /\ UNCHANGED << config, pc, current_round, is_failed, neighbors, monitored_pois,
                       neighbor_poi_coverage, la, covered_by_sensors,
                       total_packets_generated, total_packets_delivered_to_sink,
                       total_latency, min_Th_cardinality_observed,
                       max_Eth_remaining_energy_observed, is_first_iteration,
                       coverage_lost, final_cs_ids, working_time, monitoring_log,
                       routing_log, stats >>

CallBroadcastMessage ==
  \E sender_id \in Parties, covered_poi_ids \in SUBSET PoiIds(config) :
    \E m \in broadcast_message([ e |-> current_energy, st |-> state,
                                 npc |-> neighbor_poi_coverage ],
                               sender_id, covered_poi_ids) :
       /\ last_call = NoCall
       /\ current_energy' = m.e
       /\ state' = m.st
       /\ neighbor_poi_coverage' = m.npc
       /\ last_call' = [ op |-> "broadcast_message", sender_id |-> sender_id,
                         covered_poi_ids |-> covered_poi_ids,
                         count |-> m.count, handled |-> m.handled ]
       /\ UNCHANGED << config, pc, current_round, is_failed, neighbors, monitored_pois,
                       la, data_buffer, covered_by_sensors,
                       total_packets_generated, total_packets_delivered_to_sink,
                       total_latency, min_Th_cardinality_observed,
                       max_Eth_remaining_energy_observed, is_first_iteration,
                       coverage_lost, final_cs_ids, working_time, monitoring_log,
                       routing_log, stats >>

MessagingNext ==
  \/ CallSendPacket
  \/ CallBroadcastMessage

MessagingSpec == MessagingInit /\ [][MessagingNext]_vars

\* ------------------------------------------------ the deployment optimizer
\* run_optimization evaluates every individual of every generation with
\* _calculate_fitness.  Selection, crossover and mutation draw from the random
\* generator between two generations, so an individual carried over by elitism
\* is evaluated again under another generator state.  FitnessSpec evaluates one
\* individual of one optimizer repeatedly, each time under an arbitrary
\* generator state.  Fitness is in millionths; the generator state is threaded
\* through the evaluation and returned with the result.
GaNumSensors == 3
GaOptimizer(pois, k, sink) == [ pois |-> pois, k_coverage_target |-> k, num_sensors |-> GaNumSensors, sink_id_assigned_idx |-> sink, sensor_comm_range |-> 3, sensor_sensing_range |-> 2 ]
Optimizers ==
  { GaOptimizer(<< <<7, 0>> >>, 1, 0),
    GaOptimizer(<< <<7, 0>>, <<1, 0>> >>, 1, 0),
    GaOptimizer(<< <<7, 0>> >>, 2, 0),
    GaOptimizer(<< >>, 1, 0),
    GaOptimizer(<< <<7, 0>> >>, 1, GaNumSensors) }
GaPositions == { <<0, 0>>, <<3, 0>>, <<6, 0>>, <<6, 3>> }
\* flat coordinate lists [s0_x, s0_y, s1_x, s1_y, s2_x, s2_y]
Chromosomes ==
  { << a[1], a[2], b[1], b[2], c[1], c[2] >> : a, b, c \in GaPositions }
\* the states of the module-level random generator
RngStates == 0 .. 2
MaxEvaluations == 2

\* the temporary Sensor objects: chromosome index -> position
TempSensorIds(self) == 0 .. (self.num_sensors - 1)
TempPos(individual_flat_coords, i) ==
  << individual_flat_coords[2 * i + 1], individual_flat_coords[2 * i + 2] >>
\* not sensor_obj.is_sink and sensor_obj.can_sense_poi(poi_obj)
FitnessCoverers(self, individual_flat_coords, poi_pos) ==
  { i \in TempSensorIds(self) :
      /\ i # self.sink_id_assigned_idx
      /\ DistSq(TempPos(individual_flat_coords, i), poi_pos)
           <= self.sensor_sensing_range * self.sensor_sensing_range }
\* the graph over the temporary sensors
FitnessAdj(self, individual_flat_coords) ==
  [ i \in TempSensorIds(self) |->
      { j \in TempSensorIds(self) :
          /\ i # j
          /\ DistSq(TempPos(individual_flat_coords, i),
                    TempPos(individual_flat_coords, j))
               <= self.sensor_comm_range * self.sensor_comm_range } ]
\* the sensors the breadth-first search from a coverer can visit
RECURSIVE FitnessBfs(_, _)
FitnessBfs(adj, visited_bfs) ==
  LET grown == visited_bfs \cup UNION { adj[u] : u \in visited_bfs }
  IN  IF grown = visited_bfs THEN visited_bfs ELSE FitnessBfs(adj, grown)

\* faulty variant: the evaluation breaks ties with a random draw
FitnessWithDraw(self, individual_flat_coords, rng) == [ fitness |-> 1000 * ONE * (rng % 2), rng |-> (rng + 1) % 3 ]

calculate_fitness(self, individual_flat_coords, rng) ==
  LET pois == self.pois
      k_covered == { p \in DOMAIN pois :
                       Cardinality(FitnessCoverers(self, individual_flat_coords, pois[p]))
                         >= self.k_coverage_target }
      coverage_score_norm ==
        IF pois # << >> THEN (Cardinality(k_covered) * ONE) \div Len(pois) ELSE ONE
      essential_covering_sensor_ids ==
        UNION { FitnessCoverers(self, individual_flat_coords, pois[p]) : p \in k_covered }
      adj == FitnessAdj(self, individual_flat_coords)
      connected ==
        { s \in essential_covering_sensor_ids :
            \/ s = self.sink_id_assigned_idx
            \/ self.sink_id_assigned_idx \in FitnessBfs(adj, { s }) }
      connectivity_score_norm ==
        IF essential_covering_sensor_ids = {} THEN ONE
        ELSE (Cardinality(connected) * ONE) \div Cardinality(essential_covering_sensor_ids)
      fitness ==
        coverage_score_norm * 1000
          + (IF coverage_score_norm >= 999900 THEN connectivity_score_norm * 100 ELSE 0)
  IN  IF self.sink_id_assigned_idx \notin TempSensorIds(self)
      THEN [ fitness |-> 0, rng |-> rng ]
      ELSE [ fitness |-> fitness, rng |-> rng ]

not_last_call == << config, pc, current_round, current_energy, state, is_failed,
                    neighbors, monitored_pois, neighbor_poi_coverage, la,
                    data_buffer, covered_by_sensors, total_packets_generated,
                    total_packets_delivered_to_sink, total_latency,
                    min_Th_cardinality_observed, max_Eth_remaining_energy_observed,
                    is_first_iteration, coverage_lost, final_cs_ids, working_time,
                    monitoring_log, routing_log, stats >>

FitnessInit == Init /\ config = LineDeployment(0, FALSE, FALSE)

\* the first evaluation takes any individual of any optimizer, a later one the
\* same individual of the same optimizer
FitnessInputs ==
  IF last_call = NoCall
  THEN { << o, c >> : o \in Optimizers, c \in Chromosomes }
  ELSE { << last_call.self, last_call.individual >> }

CallCalculateFitness ==
  /\ IF last_call = NoCall THEN TRUE ELSE Len(last_call.evaluations) < MaxEvaluations
  /\ \E input \in FitnessInputs, rng \in RngStates :
       LET r == calculate_fitness(input[1], input[2], rng)
           before == IF last_call = NoCall THEN << >> ELSE last_call.evaluations
       IN  last_call' =
             [ op |-> "_calculate_fitness", self |-> input[1],
               individual |-> input[2],
               evaluations |->
                 Append(before, [ rng_before |-> rng, rng_after |-> r.rng,
                                  fitness |-> r.fitness ]) ]
  /\ UNCHANGED not_last_call

FitnessNext == CallCalculateFitness

FitnessSpec == FitnessInit /\ [][FitnessNext]_vars

\* ------------------------------------------------------ the energy model
\* EnergyConsumption.communication_tx_cost is a static method: any caller may
\* invoke it on any distance >= 0.  Distances are given by four times their
\* square, 0 .. MaxDistSq4.
MaxDistSq4 == 150
TxDistances == 0 .. MaxDistSq4

EnergyModelInit == Init /\ config = LineDeployment(0, FALSE, FALSE)

CallCommunicationTxCost ==
  /\ \E dsq4 \in TxDistances :
       last_call' = [ op |-> "communication_tx_cost", distance_sq4 |-> dsq4,
                      cost |-> communication_tx_cost(dsq4),
                      rx_cost |-> communication_rx_cost ]
  /\ UNCHANGED not_last_call

EnergyModelNext == CallCommunicationTxCost

EnergyModelSpec == EnergyModelInit /\ [][EnergyModelNext]_vars

\* ------------------------------------------------------------ the router
\* find_shortest_path_to_sink_dijkstra_energy_aware is a module-level function:
\* it may be called for any start node and any set of usable ids.  RoutingSpec
\* takes a network with two routes of different length from sensor 3 to the
\* sink (3-1-0 and 3-2-4-0, sensor 1 also adjacent to 2 and 4) in the
\* conditions a run can leave it in and makes one such call.
MeshDeployment ==
  [ ids |-> <<0, 1, 2, 3, 4>>, sink_id |-> 0,
    pos |-> (0 :> <<0, 0>> @@ 1 :> <<3, 0>> @@ 2 :> <<4, 2>> @@ 3 :> <<6, 0>> @@ 4 :> <<2, 2>>),
    initial_energy |-> (0 :> 40000000 @@ 1 :> 40000000 @@ 2 :> 40000000
                        @@ 3 :> 40000000 @@ 4 :> 40000000),
    comm_range |-> (0 :> 3 @@ 1 :> 3 @@ 2 :> 3 @@ 3 :> 3 @@ 4 :> 3),
    sensing_range |-> (0 :> 2 @@ 1 :> 2 @@ 2 :> 2 @@ 3 :> 2 @@ 4 :> 2),
    poi_ids |-> <<10>>, poi_pos |-> (10 :> <<7, 0>>),
    packet_loss |-> FALSE, failures |-> TRUE,
    time_slice |-> 15000000, poi_broadcast_interval |-> 1,
    reward_method |-> "cardinality" ]

\* condition k of a non-sink sensor: 1 full energy, 2 part of it, 3 less than
\* the 1e-6 J the edge cost asks of a next node, 4 failed
RouteConditionEnergy(k) ==
  IF k = 1 THEN 40000000 ELSE IF k = 2 THEN 12000000 ELSE IF k = 3 THEN 5000 ELSE 12000000

RoutingInit ==
  /\ config = MeshDeployment
  /\ pc = "idle"
  /\ current_round = 1
  /\ \E cond \in [ NonSink(config) -> 1..4 ] :
       /\ current_energy = [ s \in SensorIds(config) |->
                               IF IsSink(config, s) THEN Inf
                               ELSE RouteConditionEnergy(cond[s]) ]
       /\ is_failed = [ s \in SensorIds(config) |-> ~IsSink(config, s) /\ cond[s] = 4 ]
  /\ state = [ s \in SensorIds(config) |->
                 IF IsSink(config, s) THEN ACTIVE
                 ELSE IF is_failed[s] THEN DEAD ELSE SLEEPING ]
  /\ neighbors = DiscoverNeighbors(config, is_failed, state)
  /\ monitored_pois = DiscoverPois(config, is_failed, state)
  /\ neighbor_poi_coverage = [ s \in SensorIds(config) |-> EmptyCoverage(config) ]
  /\ la = [ s \in NonSink(config) |-> initialize_probabilities ]
  /\ data_buffer = [ s \in SensorIds(config) |-> << >> ]
  /\ covered_by_sensors = [ p \in PoiIds(config) |-> {} ]
  /\ total_packets_generated = 0
  /\ total_packets_delivered_to_sink = 0
  /\ total_latency = 0
  /\ min_Th_cardinality_observed = Inf
  /\ max_Eth_remaining_energy_observed = 0
  /\ is_first_iteration = FALSE
  /\ coverage_lost = FALSE
  /\ final_cs_ids = NoCoverSet
  /\ working_time = 0
  /\ monitoring_log = EmptyMonitoringLog
  /\ routing_log = << >>
  /\ stats = EmptyStats
  /\ last_call = NoCall

CallFindShortestPath ==
  /\ last_call = NoCall
  /\ \E start_node_id \in SensorIds(config),
        active_sensor_ids_for_path \in SUBSET SensorIds(config) :
       last_call' = [ op |-> "find_shortest_path_to_sink_dijkstra_energy_aware",
                      start_node_id |-> start_node_id,
                      active_sensor_ids_for_path |-> active_sensor_ids_for_path,
                      path |-> find_shortest_path_to_sink_dijkstra_energy_aware(
                                 current_energy, state, start_node_id,
                                 active_sensor_ids_for_path) ]
  /\ UNCHANGED not_last_call

RoutingNext == CallFindShortestPath

RoutingSpec == RoutingInit /\ [][RoutingNext]_vars

\* ------------------------------------------- the optimizer's main loop
\* GADeploymentOptimizer.run_optimization: one step per generation of the
\* loop, the draws of selection, crossover and mutation as inputs.  The area
\* is a strip of width 6 and height 0, so every sensor lies on the x axis, at
\* one of the grid points GaXs (mutation clips every coordinate into the area,
\* which leaves 0 .. height for y).  The run is kept in
\* last_call: the population, the best individual so far, and for every
\* generation the sorted population_with_fitness that was evaluated.
MaxGenerations == 2
GaPopSize == 3
GaXs == { 0, 3, 6 }
GaConfig(elitism_count, mutation_rate) == [ pop_size |-> GaPopSize, generations |-> MaxGenerations, mutation_rate |-> mutation_rate, crossover_rate |-> 700000, tournament_size |-> 2, elitism_count |-> elitism_count, width |-> 6, height |-> 0 ]
\* the optimizers run: <<network part, GA parameters>>
GaRuns ==
  { << GaOptimizer(<< <<7, 0>> >>, 1, 0), GaConfig(GaPopSize - 2, 0) >>,
    << GaOptimizer(<< <<7, 0>> >>, 1, 0), GaConfig(GaPopSize - 1, 0) >>,
    << GaOptimizer(<< <<7, 0>>, <<1, 0>> >>, 1, 0), GaConfig(GaPopSize - 2, 0) >>,
    << GaOptimizer(<< <<7, 0>> >>, 1, 0), GaConfig(GaPopSize - 1, 100000) >> }
\* the populations _initialize_population may draw: pop_size individuals
\* each, taken in turn from one of four lists of draws
InitialDraws ==
  { << <<0, 0, 0, 0, 3, 0>>, <<0, 0, 6, 0, 6, 0>>, <<3, 0, 0, 0, 0, 0>> >>,
    << <<3, 0, 0, 0, 0, 0>>, <<0, 0, 0, 0, 3, 0>>, <<6, 0, 0, 0, 3, 0>> >>,
    << <<0, 0, 6, 0, 6, 0>>, <<0, 0, 6, 0, 0, 0>>, <<6, 0, 0, 0, 3, 0>> >>,
    << <<0, 0, 0, 0, 3, 0>>, <<0, 0, 3, 0, 6, 0>>, <<0, 0, 6, 0, 6, 0>> >> }
InitialPopulations ==
  { [ i \in 1..GaPopSize |-> draws[((i - 1) % Len(draws)) + 1] ] : draws \in InitialDraws }

\* "population_with_fitness.sort(key=lambda item: item[1], reverse=True)":
\* a stable sort, equal fitness keeps the order of the population
SortByFitness(population_with_fitness) ==
  LET n == Len(population_with_fitness)
      before(i) == { j \in 1..n :
                       \/ population_with_fitness[j].fitness > population_with_fitness[i].fitness
                       \/ /\ population_with_fitness[j].fitness = population_with_fitness[i].fitness
                          /\ j < i }
  IN  [ r \in 1..n |->
          population_with_fitness[CHOOSE i \in 1..n : Cardinality(before(i)) = r - 1] ]
\* _selection: one tournament per individual; random.sample draws
\* tournament_size distinct entries in random order and max returns the first
\* of the best of them
selection(ga, population_with_fitness) ==
  LET n == Len(population_with_fitness)
      winners ==
        { population_with_fitness[i].individual :
            i \in { w \in 1..n :
                      \E tournament \in SUBSET (1..n) :
                         /\ Cardinality(tournament) = ga.tournament_size
                         /\ w \in tournament
                         /\ \A j \in tournament :
                              population_with_fitness[j].fitness
                                <= population_with_fitness[w].fitness } }
  IN  [ 1..n -> winners ]
\* _crossover: the pairs of children of two parents
crossover(ga, parent1, parent2) ==
  LET num_genes == Len(parent1) \div 2
      points == IF ga.crossover_rate > 0 /\ num_genes > 1
                THEN { 2 * k : k \in 1..(num_genes - 1) } ELSE {}
  IN  (IF ga.crossover_rate < ONE \/ num_genes <= 1 THEN { << parent1, parent2 >> } ELSE {})
        \cup { << SubSeq(parent1, 1, point) \o SubSeq(parent2, point + 1, Len(parent2)),
                  SubSeq(parent2, 1, point) \o SubSeq(parent1, point + 1, Len(parent1)) >> :
               point \in points }
\* _mutate: every coordinate is kept, or (mutation_rate > 0) moved to any
\* value of its axis inside the area; the individuals whose first k
\* coordinates have been visited
RECURSIVE MutatedUpTo(_, _, _)
MutatedUpTo(ga, individual, k) ==
  IF k = 0 THEN { individual }
  ELSE LET moved == IF ga.mutation_rate = 0 THEN {}
                    ELSE IF (k - 1) % 2 = 0 THEN { x \in GaXs : x <= ga.width }
                    ELSE 0..ga.height
       IN  { [ m EXCEPT ![k] = v ] :
               m \in MutatedUpTo(ga, individual, k - 1),
               v \in (IF ga.mutation_rate < ONE THEN { individual[k] } ELSE {}) \cup moved }
mutate(ga, individual) == MutatedUpTo(ga, individual, Len(individual))
\* faulty variant: the individuals carried over are taken from the end of the list
ElitesFromTail(ga, population_with_fitness) == [ i \in 1..ga.elitism_count |-> population_with_fitness[Len(population_with_fitness) + 1 - i].individual ]

\* "for i in range(self.elitism_count): next_population.append(list(...[i][0]))"
Elites(ga, population_with_fitness) ==
  [ i \in 1..ga.elitism_count |-> population_with_fitness[i].individual ]
\* one pass of the while loop: two parents, their children, mutated; the
\* second child is appended only while the population is not full
RECURSIVE FillPopulation(_, _, _)
FillPopulation(ga, selected_parents, next_population) ==
  IF Len(next_population) >= ga.pop_size THEN { next_population }
  ELSE UNION { UNION { UNION {
         IF Len(next_population) + 1 < ga.pop_size
         THEN UNION { FillPopulation(ga, selected_parents,
                                     next_population \o << m1, m2 >>) :
                      m2 \in mutate(ga, c[2]) }
         ELSE FillPopulation(ga, selected_parents, Append(next_population, m1)) :
           m1 \in mutate(ga, c[1]) } :
           c \in crossover(ga, selected_parents[pair[1]], selected_parents[pair[2]]) } :
           pair \in { q \in (1..Len(selected_parents)) \X (1..Len(selected_parents)) :
                        q[1] # q[2] } }
\* the populations one generation may leave: "next_population[:self.pop_size]"
NextPopulations(ga, population_with_fitness) ==
  UNION { { SubSeq(p, 1, ga.pop_size) :
            p \in FillPopulation(ga, selected_parents, Elites(ga, population_with_fitness)) } :
          selected_parents \in selection(ga, population_with_fitness) }

\* "self._initialize_population()" and the two best-so-far variables
StartOptimization ==
  /\ last_call = NoCall
  /\ \E run \in GaRuns, population \in InitialPopulations :
       last_call' = [ op |-> "run_optimization", self |-> run[1], ga |-> run[2],
                      gen |-> 0, stopped |-> FALSE, population |-> population,
                      best_overall_fitness |-> -ONE,
                      best_overall_individual |-> [ none |-> TRUE, coords |-> << >> ],
                      history |-> << >>, finished |-> FALSE,
                      returned |-> [ none |-> TRUE, deployment |-> << >> ] ]
  /\ UNCHANGED not_last_call

GaLooping ==
  IF last_call.op = "run_optimization"
  THEN ~last_call.finished /\ ~last_call.stopped /\ last_call.gen < last_call.ga.generations
  ELSE FALSE

\* one iteration of "for gen in range(self.generations)"
RunGeneration ==
  /\ GaLooping
  /\ LET evaluated_population ==
           [ i \in 1..Len(last_call.population) |->
               [ individual |-> last_call.population[i],
                 fitness |-> calculate_fitness(last_call.self, last_call.population[i], 0).fitness ] ]
         population_with_fitness == SortByFitness(evaluated_population)
         improved == population_with_fitness[1].fitness > last_call.best_overall_fitness
         best_overall_fitness ==
           IF improved THEN population_with_fitness[1].fitness
           ELSE last_call.best_overall_fitness
         best_overall_individual ==
           IF improved
           THEN [ none |-> FALSE, coords |-> population_with_fitness[1].individual ]
           ELSE last_call.best_overall_individual
         evaluated == [ last_call EXCEPT
                          !.gen = @ + 1,
                          !.best_overall_fitness = best_overall_fitness,
                          !.best_overall_individual = best_overall_individual,
                          !.history = Append(@, population_with_fitness) ]
     IN  IF best_overall_fitness >= 1099 * ONE
         THEN last_call' = [ evaluated EXCEPT !.stopped = TRUE ]
         ELSE \E next_population \in NextPopulations(last_call.ga, population_with_fitness) :
                last_call' = [ evaluated EXCEPT !.population = next_population ]
  /\ UNCHANGED not_last_call

\* the end of the loop: the best individual as a deployment, or None
ReturnDeployment ==
  /\ IF last_call.op = "run_optimization"
     THEN ~last_call.finished /\ ~GaLooping
     ELSE FALSE
  /\ LET self == last_call.self
         best_overall_individual == last_call.best_overall_individual
         optimized_deployment_config ==
           [ k \in 1..self.num_sensors |->
               [ id |-> k - 1,
                 x |-> best_overall_individual.coords[2 * (k - 1) + 1],
                 y |-> best_overall_individual.coords[2 * (k - 1) + 2],
                 is_sink_role |-> (k - 1 = self.sink_id_assigned_idx) ] ]
     IN  last_call' = [ last_call EXCEPT
                          !.finished = TRUE,
                          !.returned =
                            IF best_overall_individual.none \/ best_overall_individual.coords = << >>
                            THEN [ none |-> TRUE, deployment |-> << >> ]
                            ELSE [ none |-> FALSE, deployment |-> optimized_deployment_config ] ]
  /\ UNCHANGED not_last_call

GaNext ==
  \/ StartOptimization
  \/ RunGeneration
  \/ ReturnDeployment

\* the optimizer is constructed as for the fitness evaluations
GaSpec == FitnessInit /\ [][GaNext]_vars

\* =============================================================== properties
\* the state update_phase has just left
AfterUpdatePhase == pc = "poi_coverage"
\* the state monitoring_phase has just left
AfterMonitoringPhase == pc = "update"
\* the state run_one_round has just returned in
RoundReturned == pc = "idle" /\ current_round > 0

\* C1: after update_phase every non-sink sensor is DEAD exactly when it is
\* failed or its energy is at most the near-zero threshold, and the sink is
\* ACTIVE.
C1_DeadIffFailedOrDrained ==
  AfterUpdatePhase =>
    /\ \A s \in NonSink(config) :
         (state[s] = DEAD) <=> (is_failed[s] \/ current_energy[s] <= NEAR_ZERO)
    /\ state[config.sink_id] = ACTIVE

\* a path from s to the sink along neighbour lists, inside the node set
HasPathWithin(s, nodes) ==
  \E k \in 1..Cardinality(nodes) :
    \E path \in [ 1..k -> nodes ] :
      /\ path[1] = s
      /\ path[k] = config.sink_id
      /\ \A i \in 1..(k - 1) : path[i + 1] \in Range(neighbors[path[i]])

\* C2: whenever monitoring_phase returns an operational set, every member of
\* the trimmed cover set has a path to the sink in the neighbour graph whose
\* nodes all lie in the final active set (trimmed set, bridges, sink).
C2_TrimmedMembersReachSink ==
  (AfterMonitoringPhase /\ monitoring_log.returned) =>
    /\ monitoring_log.final_active_set =
         monitoring_log.trimmed \cup monitoring_log.bridges \cup {config.sink_id}
    /\ \A s \in monitoring_log.trimmed :
         HasPathWithin(s, monitoring_log.final_active_set)

\* a returned set whose member reaches the sink only through an activated bridge
C2_Witness ==
  /\ AfterMonitoringPhase /\ monitoring_log.returned
  /\ monitoring_log.bridges # {}
  /\ \E s \in monitoring_log.trimmed : config.sink_id \notin Range(neighbors[s])

\* C3: the set _trim_cover_set returns is locally minimal: taking any single
\* member out leaves some POI, covered by the returned set, without a coverer.
C3_TrimmedLocallyMinimal ==
  AfterMonitoringPhase =>
    \A m \in monitoring_log.trimmed :
      \E p \in PoiIds(config) :
        /\ \E s \in monitoring_log.trimmed : CanSense(s, p)
        /\ ~ \E s \in monitoring_log.trimmed \ {m} : CanSense(s, p)

\* C4: in every round's statistics active + sleep + dead is the number of
\* non-sink sensors; the three lists partition the non-sink sensors and the
\* sink is in none of them.
C4_CountsPartitionNonSink ==
  /\ stats.round > 0 =>
       stats.active_sensors + stats.sleep_sensors + stats.dead_sensors
         = Cardinality(NonSink(config))
  /\ pc = "statistics" =>
       /\ active_non_sink_sensors_list \cup sleep_non_sink_sensors_list
            \cup dead_or_failed_sensors_list = NonSink(config)
       /\ active_non_sink_sensors_list \cap sleep_non_sink_sensors_list = {}
       /\ active_non_sink_sensors_list \cap dead_or_failed_sensors_list = {}
       /\ sleep_non_sink_sensors_list \cap dead_or_failed_sensors_list = {}

\* statistics of a round with a failed sensor, an energy death and live sensors
C4_Witness ==
  /\ RoundReturned /\ stats.round = current_round
  /\ stats.active_sensors > 0 /\ stats.dead_sensors > 1
  /\ \E s \in NonSink(config) : is_failed[s]
  /\ \E s \in NonSink(config) : ~is_failed[s] /\ state[s] = DEAD

\* C5: coverage_lost is sticky: no step of any later round clears it.
C5_CoverageLostSticky == [][coverage_lost => coverage_lost']_vars

\* a round that ends with the flag still set although its own monitoring
\* phase returned an operational set
C5_Witness ==
  /\ RoundReturned /\ coverage_lost
  /\ monitoring_log.returned /\ ~final_cs_ids.none /\ final_cs_ids.ids # {}

PacketCounters == << data_buffer, total_packets_generated,
                     total_packets_delivered_to_sink >>

\* C6: in a round whose monitoring phase returns no cover set the pipeline
\* still runs to the statistics record, and the round neither generates nor
\* forwards a packet: the counters and every buffer stay as they were.
C6_LossRoundSkipsReporting ==
  [][ /\ pc \in {"idle", "failures", "learning", "monitoring"}
           => UNCHANGED PacketCounters
      /\ (pc \in {"update", "poi_coverage", "broadcast", "statistics"}
          /\ final_cs_ids.none)
           => /\ UNCHANGED PacketCounters
              /\ pc' \notin {"reports", "routing"}
      /\ (pc = "broadcast" /\ final_cs_ids.none) => pc' = "statistics"
      /\ pc = "statistics"
           => /\ pc' = "idle"
              /\ stats'.round = current_round
              /\ stats'.generated = total_packets_generated
              /\ stats'.delivered = total_packets_delivered_to_sink ]_vars

\* a returned round without a cover set while undelivered packets sit in buffers
C6_Witness ==
  /\ RoundReturned /\ stats.round = current_round
  /\ final_cs_ids.none /\ coverage_lost
  /\ \E s \in NonSink(config) : data_buffer[s] # << >>
  /\ total_packets_generated > total_packets_delivered_to_sink

HeldSerials(s) == { data_buffer[s][i].serial : i \in 1..Len(data_buffer[s]) }

\* C7: delivered never exceeds generated (so the delivery ratio is within
\* [0,1]), and no packet is counted as delivered twice: the sink holds one
\* copy of each delivered packet and no packet sits in two places.
C7_DeliveredAtMostGenerated ==
  /\ total_packets_delivered_to_sink <= total_packets_generated
  /\ stats.delivered <= stats.generated
  /\ total_packets_delivered_to_sink = Len(data_buffer[config.sink_id])
  /\ \A s \in SensorIds(config) :
       /\ Cardinality(HeldSerials(s)) = Len(data_buffer[s])
       /\ \A o \in SensorIds(config) \ {s} : HeldSerials(s) \cap HeldSerials(o) = {}

\* a packet delivered over two hops while another is still on its way
C7_Witness ==
  /\ total_packets_delivered_to_sink >= 1
  /\ total_packets_delivered_to_sink < total_packets_generated
  /\ \E i \in 1..Len(data_buffer[config.sink_id]) :
       Len(data_buffer[config.sink_id][i].path_taken) = 3

LossFree == ~config.packet_loss

StatusesOf(log) == { log[i].status : i \in 1..Len(log) }

\* C8 as stated: with loss probability 0.0 the only reason a routed packet
\* stays undelivered in a round is that no path was found.
C8_OnlyNoPathKeepsPacket ==
  LossFree => StatusesOf(routing_log) \subseteq
                { "DELIVERED_TO_RECEIVER_BUFFER", "NO_PATH" }

\* C8 amended: with loss probability 0.0 a packet an ACTIVE holder routes
\* either moves to its next hop, or stays because no path was found or
\* because the sender or the receiver ran out of energy in the attempt; it is
\* never lost in transit and never leaves the buffers.
C8_LossFreeRoutingOutcomes ==
  LossFree =>
    /\ StatusesOf(routing_log) \subseteq
         { "DELIVERED_TO_RECEIVER_BUFFER", "NO_PATH", "SENDER_DIED_DURING_TX",
           "SENDER_DEAD", "RECEIVER_DIED_OR_FAILED_UPON_RX" }
    /\ UNION { HeldSerials(s) : s \in SensorIds(config) }
         = 1..total_packets_generated
    /\ \A i \in 1..Len(routing_log) :
         routing_log[i].status = "DELIVERED_TO_RECEIVER_BUFFER" =>
           \E s \in SensorIds(config) : \E k \in 1..Len(data_buffer[s]) :
             LET packet == data_buffer[s][k]
             IN /\ packet.serial = routing_log[i].serial
                /\ \E j \in 1..(Len(packet.path_taken) - 1) :
                     /\ packet.path_taken[j] = routing_log[i].holder
                     /\ packet.path_taken[j + 1] = routing_log[i].next_hop

\* a lossless round in which a sender with a path died transmitting and its
\* packet stayed with it
C8_Witness ==
  /\ LossFree /\ pc = "statistics"
  /\ \E i \in 1..Len(routing_log) :
       /\ routing_log[i].status = "SENDER_DIED_DURING_TX"
       /\ state[routing_log[i].holder] = DEAD
       /\ routing_log[i].serial \in HeldSerials(routing_log[i].holder)

\* C9: get_network_lifetime returns the current round whenever no non-sink
\* sensor is ACTIVE or all sensors are DEAD, and None otherwise.
C9_LifetimeReported ==
  RoundReturned =>
    LET ended == \/ ~ \E s \in NonSink(config) : state[s] = ACTIVE
                 \/ \A s \in SensorIds(config) : state[s] = DEAD
    IN IF ended
       THEN get_network_lifetime = [ none |-> FALSE, round |-> current_round ]
       ELSE get_network_lifetime.none

Qualifies(s, p) ==
  /\ CanSense(s, p)
  /\ Cardinality({ a \in ActiveSensorIds : CanSense(a, p) }) >= K_COVERAGE_LEVEL

\* C10: a round's report generation gives each sensor at most one packet:
\* generated grows by at most the number of ACTIVE non-sink sensors, and a
\* sensor monitoring several k-covered POIs reports the first qualifying one.
C10_OneReportPerSensor ==
  [][ pc = "reports" =>
        LET fresh(s) == SubSeq(data_buffer'[s], Len(data_buffer[s]) + 1,
                               Len(data_buffer'[s]))
        IN /\ \A s \in SensorIds(config) :
                /\ SubSeq(data_buffer'[s], 1, Len(data_buffer[s])) = data_buffer[s]
                /\ Len(fresh(s)) <= 1
                /\ Len(fresh(s)) = 1 =>
                     /\ s \in active_non_sink_sensors_list
                     /\ fresh(s)[1].source_id = s
                     /\ \E i \in 1..Len(monitored_pois[s]) :
                          /\ monitored_pois[s][i] = fresh(s)[1].poi_id
                          /\ Qualifies(s, monitored_pois[s][i])
                          /\ \A j \in 1..(i - 1) : ~Qualifies(s, monitored_pois[s][j])
           /\ total_packets_generated' - total_packets_generated
                <= Cardinality(active_non_sink_sensors_list) ]_vars

\* a sensor with two qualifying POIs has just reported the first of them
C10_Witness ==
  /\ pc = "routing"
  /\ \E s \in active_non_sink_sensors_list :
       /\ Cardinality({ p \in Range(monitored_pois[s]) : Qualifies(s, p) }) >= 2
       /\ data_buffer[s] # << >>
       /\ data_buffer[s][Len(data_buffer[s])].creation_time = current_round
       /\ data_buffer[s][Len(data_buffer[s])].poi_id = monitored_pois[s][1]

\* C11: after any sequence of initialize_probabilities,
\* set_probabilities_based_on_energy_ratio (any ratio) and
\* update_probabilities_LRI calls, P(ACTIVE) + P(SLEEP) is 1 and each
\* probability lies in [0.001, 0.999]; right after initialisation both are 0.5.
C11_ProbabilitiesNormalisedAndClipped ==
  \A s \in DOMAIN la :
    /\ la[s][ACTION_ACTIVE_IDX] + la[s][ACTION_SLEEP_IDX] = ONE
    /\ \A i \in ActionIndices : MIN_PROB <= la[s][i] /\ la[s][i] <= ONE - MIN_PROB
\* one automaton driven to the upper clip and another to the lower one
C11_Witness ==
  /\ \E s \in DOMAIN la : la[s] = << ONE - MIN_PROB, MIN_PROB >>
  /\ \E s \in DOMAIN la : la[s] = << MIN_PROB, ONE - MIN_PROB >>

\* the vector L_R-I prescribes when the action at index i is rewarded
RewardedAt(probs, i) ==
  LET j == IF i = ACTION_ACTIVE_IDX THEN ACTION_SLEEP_IDX ELSE ACTION_ACTIVE_IDX
      up == probs[i] + (A_NUM * (ONE - probs[i])) \div A_DEN
      down == probs[j] - (A_NUM * probs[j]) \div A_DEN
  IN [ k \in ActionIndices |-> IF k = i THEN up ELSE down ]

\* C12: with a reward signal update_probabilities_LRI raises the probability
\* of the action index it is given (ACTIVE or SLEEP) by a*(1-p) and lowers the
\* other by a*q, clipping afterwards; without a reward signal it changes
\* nothing.
C12_RewardRaisesGivenAction ==
  \A s \in DOMAIN la : \A i \in ActionIndices :
    /\ update_probabilities_LRI(la[s], i, FALSE) = la[s]
    /\ update_probabilities_LRI(la[s], i, TRUE) =
         normalize_and_clip(RewardedAt(la[s], i))

\* ------------------------------------------------ direct calls: contracts
SendCalled == last_call'.op = "send_packet"
BroadcastCalled == last_call'.op = "broadcast_message"
Known(id) == id \in SensorIds(config)

\* one of the parties of a send_packet call is missing, failed, DEAD or
\* SLEEP, or the receiver lies beyond the sender's comm range
InvalidParty(sender_id, receiver_id) ==
  \/ ~Known(sender_id) \/ ~Known(receiver_id)
  \/ is_failed[sender_id] \/ state[sender_id] # ACTIVE
  \/ is_failed[receiver_id] \/ state[receiver_id] # ACTIVE
  \/ DistSq(config.pos[sender_id], config.pos[receiver_id])
       > config.comm_range[sender_id] * config.comm_range[sender_id]

\* the condition each refusal reason stands for
ReasonHolds(status, sender_id, receiver_id) ==
  CASE status = "SENDER_NOT_FOUND" -> ~Known(sender_id)
    [] status = "SENDER_FAILED" -> Known(sender_id) /\ is_failed[sender_id]
    [] status = "SENDER_DEAD" -> Known(sender_id) /\ state[sender_id] = DEAD
    [] status = "SENDER_ASLEEP" -> Known(sender_id) /\ state[sender_id] = SLEEPING
    [] status = "RECEIVER_NOT_FOUND" -> ~Known(receiver_id)
    [] status = "RECEIVER_FAILED" -> Known(receiver_id) /\ is_failed[receiver_id]
    [] status = "RECEIVER_DEAD" -> Known(receiver_id) /\ state[receiver_id] = DEAD
    [] status = "RECEIVER_ASLEEP" -> Known(receiver_id) /\ state[receiver_id] = SLEEPING
    [] status = "OUT_OF_RANGE" ->
         /\ Known(sender_id) /\ Known(receiver_id)
         /\ DistSq(config.pos[sender_id], config.pos[receiver_id])
              > config.comm_range[sender_id] * config.comm_range[sender_id]
    [] OTHER -> FALSE

\* C13: send_packet refuses an invalid party with (False, reason), the reason
\* naming a condition that holds (sender or receiver missing, failed, DEAD or
\* SLEEP, or receiver out of the sender's range), and leaves every buffer as
\* it was; with valid parties it gives none of these reasons.
C13_InvalidPartyRefused ==
  [][ SendCalled =>
        LET c == last_call'
        IN IF InvalidParty(c.sender_id, c.receiver_id)
           THEN /\ ~c.ok
                /\ ReasonHolds(c.status, c.sender_id, c.receiver_id)
                /\ data_buffer' = data_buffer
                /\ c.packet_after = c.packet
           ELSE ~ReasonHolds(c.status, c.sender_id, c.receiver_id) ]_vars
\* the relay was refused a packet of its buffer because the receiver sleeps
C13_Witness ==
  /\ last_call.op = "send_packet"
  /\ last_call.status = "RECEIVER_ASLEEP"
  /\ last_call.packet = ReceivedPacket

\* the energy a sensor is left with when a cost is taken from it (the sink's
\* energy is infinite)
Debited(s, cost) ==
  IF IsSink(config, s) THEN current_energy[s]
  ELSE IF current_energy[s] <= cost THEN 0 ELSE current_energy[s] - cost

\* transmitCost(distance) of a unicast between two known sensors
UnicastCost(sender_id, receiver_id) ==
  E_ELEC * PACKET_SIZE_BITS
    + E_AMP * PACKET_SIZE_BITS * DistSq(config.pos[sender_id], config.pos[receiver_id])

\* C14: when all unicast checks pass the sender is debited
\* transmitCost(distance) whether or not the packet is then lost; if the
\* debit exhausts its energy the call fails with SENDER_DIED_DURING_TX, the
\* sender is DEAD with energy 0 whatever the loss draw would have been, and
\* the receiver's energy and buffer are unchanged.
C14_SenderPaysBeforeLossDraw ==
  [][ (SendCalled /\ ~InvalidParty(last_call'.sender_id, last_call'.receiver_id)) =>
        LET c == last_call'
            cost == UnicastCost(c.sender_id, c.receiver_id)
        IN /\ current_energy'[c.sender_id] = Debited(c.sender_id, cost)
           /\ (~IsSink(config, c.sender_id) /\ current_energy[c.sender_id] <= cost) =>
                /\ ~c.ok /\ c.status = "SENDER_DIED_DURING_TX"
                /\ state'[c.sender_id] = DEAD
                /\ current_energy'[c.sender_id] = 0
                /\ current_energy'[c.receiver_id] = current_energy[c.receiver_id]
                /\ state'[c.receiver_id] = state[c.receiver_id]
                /\ data_buffer' = data_buffer
           /\ c.status = "PACKET_LOST_IN_TRANSIT" =>
                /\ ~c.ok /\ c.lost
                /\ current_energy'[c.receiver_id] = current_energy[c.receiver_id]
                /\ data_buffer' = data_buffer ]_vars
\* the sender died of the debit in a call whose loss draw would have lost the
\* packet
C14_Witness ==
  /\ last_call.op = "send_packet"
  /\ last_call.status = "SENDER_DIED_DURING_TX"
  /\ last_call.lost
  /\ current_energy[last_call.sender_id] = 0

\* no two neighbouring entries of a path are equal
NoConsecutiveRepeat(path) == \A i \in 1..(Len(path) - 1) : path[i] # path[i + 1]

BroadcastCost(sender_id) ==
  E_ELEC * PACKET_SIZE_BITS
    + (E_AMP * PACKET_SIZE_BITS * config.comm_range[sender_id]
         * config.comm_range[sender_id]) \div 4

\* C16: broadcast_message debits the sender one transmit cost at distance
\* comm_range/2 however many neighbours receive; for a missing, failed, DEAD
\* or SLEEP sender it returns 0 and changes no energy and no
\* neighbor_poi_coverage; only ACTIVE non-failed neighbours are debited the
\* receive cost or have their handler run, and the count returned is the
\* number of handlers run.
C16_BroadcastFrame ==
  [][ BroadcastCalled =>
        LET c == last_call'
            s == c.sender_id
        IN IF ~Known(s) \/ is_failed[s] \/ state[s] # ACTIVE
           THEN /\ c.count = 0
                /\ c.handled = {}
                /\ UNCHANGED << current_energy, state, neighbor_poi_coverage >>
           ELSE /\ current_energy'[s] = Debited(s, BroadcastCost(s))
                /\ neighbor_poi_coverage'[s] = neighbor_poi_coverage[s]
                /\ c.count = Cardinality(c.handled)
                /\ \A r \in SensorIds(config) \ {s} :
                     /\ current_energy'[r] \in
                          { current_energy[r], Debited(r, communication_rx_cost) }
                     /\ ( \/ current_energy'[r] # current_energy[r]
                          \/ neighbor_poi_coverage'[r] # neighbor_poi_coverage[r]
                          \/ r \in c.handled ) =>
                          /\ state[r] = ACTIVE /\ ~is_failed[r]
                          /\ r \in Range(neighbors[s])
                     /\ r \in c.handled =>
                          /\ state'[r] = ACTIVE
                          /\ s \in neighbor_poi_coverage'[r].heard
                          /\ neighbor_poi_coverage'[r].cov[s] = c.covered_poi_ids
                          /\ current_energy'[r] = Debited(r, communication_rx_cost)
                     /\ r \notin c.handled =>
                          neighbor_poi_coverage'[r] = neighbor_poi_coverage[r] ]_vars
\* the relay's broadcast reached the sink and sensor 2
C16_Witness ==
  /\ last_call.op = "broadcast_message"
  /\ last_call.sender_id = 1
  /\ last_call.count = 2
  /\ last_call.handled = { 0, 2 }
  /\ neighbor_poi_coverage[2].cov[1] = { 10 }

\* C17: a debit whose cost is at least the sensor's energy leaves the energy
\* exactly 0 and the state DEAD; the energy of every non-sink sensor is never
\* negative and never increases, and the sink's energy stays infinite.
C17_EnergyClampedAndMonotone ==
  [][ \A s \in SensorIds(config) :
        IF IsSink(config, s)
        THEN current_energy[s] = Inf /\ current_energy'[s] = Inf
        ELSE /\ 0 <= current_energy'[s]
             /\ current_energy'[s] <= current_energy[s]
             /\ (current_energy'[s] = 0 /\ current_energy[s] > 0) => state'[s] = DEAD
             /\ state[s] # DEAD =>
                  \A amount \in { current_energy[s], current_energy[s] + 1,
                                  10 * current_energy[s] } :
                    update_energy(current_energy[s], state[s], FALSE, NoneVal, amount)
                      = [ energy |-> 0, state |-> DEAD ] ]_vars
\* a sender that was not failed died of a transmission it could not pay for
C17_Witness ==
  \E i \in 1..Len(routing_log) :
    /\ routing_log[i].status = "SENDER_DIED_DURING_TX"
    /\ ~is_failed[routing_log[i].holder]
    /\ current_energy[routing_log[i].holder] = 0
    /\ state[routing_log[i].holder] = DEAD

\* the end-to-end scenario: a sink and two non-sink sensors on a line, each
\* within comm range of the next, one POI within sensing range of a non-sink
\* sensor, no failures and no loss
InSensingRange(c, s, p) ==
  DistSq(c.pos[s], c.poi_pos[p]) <= c.sensing_range[s] * c.sensing_range[s]
IsLineScenario(c) ==
  /\ Len(c.ids) = 3 /\ Len(c.poi_ids) = 1
  /\ ~c.packet_loss /\ ~c.failures
  /\ \A s \in SensorIds(c) : c.pos[s][2] = 0
  /\ \E a, b, d \in SensorIds(c) :
       /\ c.pos[a][1] < c.pos[b][1] /\ c.pos[b][1] < c.pos[d][1]
       /\ DistSq(c.pos[a], c.pos[b]) <= c.comm_range[a] * c.comm_range[a]
       /\ DistSq(c.pos[a], c.pos[b]) <= c.comm_range[b] * c.comm_range[b]
       /\ DistSq(c.pos[b], c.pos[d]) <= c.comm_range[b] * c.comm_range[b]
       /\ DistSq(c.pos[b], c.pos[d]) <= c.comm_range[d] * c.comm_range[d]
  /\ \E s \in NonSink(c) : InSensingRange(c, s, Head(c.poi_ids))

\* C18: in the line scenario the statistics of round 1 report
\* coverage_q_k = 1.0 and the sensor covering the POI is ACTIVE.
C18_LineRoundOneCovered ==
  (IsLineScenario(config) /\ RoundReturned /\ stats.round = 1 /\ current_round = 1) =>
    /\ stats.covered_pois = Len(config.poi_ids)
    /\ \E s \in NonSink(config) :
         InSensingRange(config, s, Head(config.poi_ids)) /\ state[s] = ACTIVE

\* what the statistics of the last finished round report
PdrIsOne == stats.generated > 0 /\ stats.delivered = stats.generated
\* avg_latency (in tenths of a round) within half a round of one round
AvgLatencyAboutOneRound ==
  /\ stats.delivered > 0
  /\ 5 * stats.delivered <= stats.latency
  /\ stats.latency <= 15 * stats.delivered

\* C19: in the line scenario, once a report has been generated the statistics
\* eventually report pdr = 1.0 with an average latency of delivered packets
\* of about one round.
C19_LinePdrReachesOne ==
  (IsLineScenario(config) /\ total_packets_generated > 0)
    ~> (RoundReturned /\ PdrIsOne /\ AvgLatencyAboutOneRound)

\* C20: _calculate_fitness is deterministic: evaluations of the same
\* chromosome against the same POI set under different states of the random
\* generator return the same fitness, and none of them consumes a random draw.
FitnessCalled == last_call.op = "_calculate_fitness"
TxCostCalled == last_call.op = "communication_tx_cost"
C21_TxCostMonotone ==
  TxCostCalled =>
    /\ \A d1 \in 0 .. last_call.distance_sq4 :
         communication_tx_cost(d1) <= last_call.cost
    /\ last_call.distance_sq4 = 0 => last_call.cost = E_ELEC * PACKET_SIZE_BITS
    /\ last_call.rx_cost = E_ELEC * PACKET_SIZE_BITS
C21_Witness ==
  /\ TxCostCalled
  /\ last_call.distance_sq4 = 36
  /\ last_call.cost = 260608
  /\ last_call.cost > last_call.rx_cost

\* C22: with no POIs defined calculate_q_coverage returns exactly 1.0 in every
\* round, whatever the topology and the sensor states, and the monitoring
\* phase never sets coverage_lost.
NoPoisDefined == config.poi_ids = << >>
C22_NoPoisFullCoverage ==
  NoPoisDefined =>
    /\ calculate_q_coverage = ONE
    /\ RoundReturned => stats.coverage_q_k = ONE
    /\ ~coverage_lost
    /\ pc = "update" => monitoring_log.returned
C22_Witness ==
  /\ NoPoisDefined
  /\ RoundReturned
  /\ stats.round = 2
  /\ stats.coverage_q_k = ONE
  /\ stats.dead_sensors > 0
  /\ monitoring_log.returned

\* C23: in a pass of the connectivity repair, for the disconnected member of
\* the trimmed cover set the pass examines first, if some alive, non-failed
\* sensor outside the active set (of any id, 0 included) would connect it to
\* the sink, then a sensor of greatest utility
\* 0.6 * (energy / initial_energy) + 0.4 * P(ACTIVE) among those candidates is
\* activated as a bridge.  Stated for the first pass of the repair loop.
BridgeCandidates(member, active) ==
  { c \in SensorIds(config) \ active :
      Alive(c) /\ HasPathWithin(member, active \cup {c}) }
FirstPassBridged(trimmed, bridges) ==
  LET start == trimmed \cup {config.sink_id}
      disconnected == { s \in trimmed : ~HasPathWithin(s, start) }
      member == CHOOSE s \in disconnected : \A o \in disconnected : s <= o
      cands == BridgeCandidates(member, start)
  IN  (disconnected # {} /\ cands # {}) =>
        \E b \in bridges \cap cands :
          \A o \in cands : BridgeUtility(b) >= BridgeUtility(o)
C23_BestBridgeActivated ==
  [][(pc = "monitoring" /\ pc' = "update") =>
       FirstPassBridged(monitoring_log'.trimmed, monitoring_log'.bridges)]_vars

\* C24: the operational set monitoring_phase returns is (trimmed cover set
\* \cup activated bridges) without the sink and holds no failed or DEAD
\* sensor; after the following update_phase a non-sink sensor is ACTIVE only
\* if it is in that round's operational set, and every other non-sink sensor
\* that is not DEAD is SLEEP and has paid exactly the per-round sleep cost.
OperationalSet == IF final_cs_ids.none THEN {} ELSE final_cs_ids.ids
MonitoringReturnsOperationalSet ==
  (pc = "monitoring" /\ pc' = "update" /\ ~final_cs_ids'.none) =>
    /\ final_cs_ids'.ids =
         (monitoring_log'.trimmed \cup monitoring_log'.bridges) \ {config.sink_id}
    /\ \A s \in final_cs_ids'.ids : ~is_failed[s] /\ state[s] # DEAD
UpdateFollowsOperationalSet ==
  (pc = "update" /\ pc' = "poi_coverage") =>
    \A s \in NonSink(config) :
      /\ state'[s] = ACTIVE => s \in OperationalSet
      /\ (s \notin OperationalSet /\ state'[s] # DEAD) =>
           /\ state'[s] = SLEEPING
           /\ current_energy'[s] = current_energy[s] - SLEEP
C24_OperationalSetRulesStates ==
  [][MonitoringReturnsOperationalSet /\ UpdateFollowsOperationalSet]_vars
C24_Witness ==
  /\ pc = "poi_coverage"
  /\ ~final_cs_ids.none
  /\ monitoring_log.bridges # {}
  /\ \E s \in final_cs_ids.ids : state[s] = ACTIVE
  /\ \E s \in NonSink(config) : s \notin final_cs_ids.ids /\ state[s] = SLEEPING

\* C25: if at the start of monitoring every POI is within sensing range of
\* some non-sink, non-failed, non-DEAD sensor, then cover-set formation ends
\* within its iteration bound with a cover set that covers every POI, each
\* selected sensor having covered a POI no earlier selection covered, and the
\* trimmed cover set still covers every POI.
EveryPoiCoverable ==
  \A p \in PoiIds(config) :
    \E s \in NonSink(config) : Alive(s) /\ InSensingRange(config, s, p)
CoversEveryPoi(S) ==
  \A p \in PoiIds(config) : \E s \in S : Alive(s) /\ InSensingRange(config, s, p)
EachSelectionCoversNew(S) ==
  \E order \in [ 1..Cardinality(S) -> S ] :
    /\ \A i, j \in DOMAIN order : i # j => order[i] # order[j]
    /\ \A i \in DOMAIN order :
         \E p \in PoiIds(config) :
           /\ InSensingRange(config, order[i], p)
           /\ \A j \in 1..(i - 1) : ~InSensingRange(config, order[j], p)
C25_CoverSetFormed ==
  [][(pc = "monitoring" /\ pc' = "update" /\ EveryPoiCoverable) =>
       /\ CoversEveryPoi(monitoring_log'.cover_set)
       /\ Cardinality(monitoring_log'.cover_set) <= MaxCsFormationIterations
       /\ EachSelectionCoversNew(monitoring_log'.cover_set)
       /\ CoversEveryPoi(monitoring_log'.trimmed)]_vars
C25_Witness ==
  /\ AfterMonitoringPhase
  /\ EveryPoiCoverable
  /\ Cardinality(monitoring_log.cover_set) >= 2
  /\ monitoring_log.trimmed # monitoring_log.cover_set
  /\ CoversEveryPoi(monitoring_log.trimmed)

\* C26: whenever POIs exist and monitoring_phase returns an operational set
\* without signalling coverage loss, every POI is within the sensing range of
\* at least one member of the returned operational set.
C26_ReturnedSetCoversPois ==
  (AfterMonitoringPhase /\ config.poi_ids # << >> /\ monitoring_log.returned) =>
    \A p \in PoiIds(config) :
      \E s \in final_cs_ids.ids : InSensingRange(config, s, p)

\* C27: the working time W returned by monitoring is min(configured time
\* slice, least current energy among the operational-set members), negligible
\* values clamped to 0, so W is never larger than any member's energy; after
\* the debit of update_phase every member has energy >= 0, and the debit
\* drives a member to DEAD exactly when its energy before the debit equals W.
LeastEnergy(S) == CHOOSE e \in { current_energy[s] : s \in S } : \A o \in S : e <= current_energy[o]
MonitoringReturnsWorkingTime ==
  (pc = "monitoring" /\ pc' = "update" /\ ~final_cs_ids'.none /\ final_cs_ids'.ids # {}) =>
    LET w == Min(config.time_slice, LeastEnergy(final_cs_ids'.ids))
    IN  /\ working_time' = IF w < NEAR_ZERO THEN 0 ELSE w
        /\ \A s \in final_cs_ids'.ids : working_time' <= current_energy[s]
UpdateDebitsWorkingTime ==
  (pc = "update" /\ pc' = "poi_coverage") =>
    \A s \in OperationalSet :
      /\ current_energy'[s] >= 0
      /\ working_time > 0 =>
           ((state'[s] = DEAD /\ current_energy'[s] = 0) <=> current_energy[s] = working_time)
C27_WorkingTimeWithinEnergy ==
  [][MonitoringReturnsWorkingTime /\ UpdateDebitsWorkingTime]_vars

\* C28: DEAD is terminal and failure is permanent: a sensor that is DEAD stays
\* DEAD in every later step (no phase sets it back to ACTIVE or SLEEP), it is
\* never selected into a cover set or as a bridge, and is_failed never reverts
\* to false.
DeadStaysDead == \A s \in SensorIds(config) : state[s] = DEAD => state'[s] = DEAD
FailedStaysFailed == \A s \in SensorIds(config) : is_failed[s] => is_failed'[s]
DeadNeverSelected ==
  (pc = "monitoring" /\ pc' = "update") =>
    \A s \in SensorIds(config) :
      state[s] = DEAD =>
        /\ s \notin monitoring_log'.cover_set
        /\ s \notin monitoring_log'.bridges
        /\ s \notin (IF final_cs_ids'.none THEN {} ELSE final_cs_ids'.ids)
C28_DeadIsTerminal ==
  [][DeadStaysDead /\ FailedStaysFailed /\ DeadNeverSelected]_vars
C28_Witness ==
  /\ pc = "poi_coverage"
  /\ current_round >= 2
  /\ stats.dead_sensors > 0
  /\ \E s \in NonSink(config) : state[s] = DEAD /\ is_failed[s] /\ current_energy[s] > NEAR_ZERO
  /\ \E s \in NonSink(config) : state[s] = ACTIVE

\* C29: fault injection never marks the sink failed; every sensor it marks
\* failed is DEAD in the same step; and at every phase boundary no non-failed
\* sensor's neighbour list contains a failed sensor and every failed sensor
\* has empty neighbour and monitorable-POI lists.
TopologyFreeOfFailed ==
  /\ ~is_failed[config.sink_id]
  /\ \A s \in SensorIds(config) :
       IF is_failed[s]
       THEN neighbors[s] = << >> /\ monitored_pois[s] = << >>
       ELSE \A n \in Range(neighbors[s]) : ~is_failed[n]
FailureKills ==
  \A s \in SensorIds(config) :
    (~is_failed[s] /\ is_failed'[s]) =>
      /\ pc = "failures"
      /\ s # config.sink_id
      /\ state'[s] = DEAD
C29_FailuresRediscovered ==
  [][TopologyFreeOfFailed /\ TopologyFreeOfFailed' /\ FailureKills]_vars
C29_Witness ==
  /\ pc = "learning"
  /\ \E f, s \in NonSink(config) :
       /\ is_failed[f] /\ state[f] = DEAD /\ ~is_failed[s]
       /\ DistSq(config.pos[s], config.pos[f]) <= config.comm_range[s] * config.comm_range[s]
       /\ neighbors[s] # << >>
       /\ f \notin Range(neighbors[s])

\* C30: packet conservation: at every round boundary each generated packet is
\* held in exactly one sensor's buffer (never duplicated, never lost),
\* total_packets_generated equals the number of packets in all buffers, and
\* total_packets_delivered_to_sink equals the number of packets in the sink's
\* buffer.  Packets are identified by their generation serial.
Holders(serial) == { s \in SensorIds(config) : serial \in HeldSerials(s) }
BufferedPackets == SumOver([ s \in SensorIds(config) |-> Len(data_buffer[s]) ], SensorIds(config))
C30_PacketConservation ==
  /\ \A serial \in 1..total_packets_generated : Cardinality(Holders(serial)) = 1
  /\ UNION { HeldSerials(s) : s \in SensorIds(config) } = 1..total_packets_generated
  /\ BufferedPackets = total_packets_generated
  /\ Len(data_buffer[config.sink_id]) = total_packets_delivered_to_sink
C30_Witness ==
  /\ RoundReturned
  /\ total_packets_generated >= 3
  /\ total_packets_delivered_to_sink >= 1
  /\ \E s \in NonSink(config) : state[s] = DEAD /\ data_buffer[s] # << >>
  /\ \E s \in NonSink(config) : state[s] # DEAD /\ data_buffer[s] # << >>

\* C31: within one routing phase each packet is forwarded over at most one
\* hop: a packet received by an intermediate sensor in round r is not
\* forwarded again before round r+1, whatever the order of the sensor ids
\* along the path.  routing_log holds the hops of the current round.
Forwarded(i) == routing_log[i].status = "DELIVERED_TO_RECEIVER_BUFFER"
C31_OneHopPerRound ==
  \A i, j \in 1..Len(routing_log) :
    (i # j /\ Forwarded(i) /\ Forwarded(j)) => routing_log[i].serial # routing_log[j].serial

\* C32: find_shortest_path_to_sink_dijkstra_energy_aware returns either None
\* or a path that starts at the start node, ends at the sink, repeats no node,
\* has every consecutive pair (u,v) with v in u's neighbor list, and whose
\* nodes are all in the usable set and non-failed; the returned path has
\* minimum total edge weight among such paths, and None is returned only when
\* the start is unusable or no such path with finite weight exists.
RouteCalled == last_call.op = "find_shortest_path_to_sink_dijkstra_energy_aware"
RouteUsable(n) == n \in last_call.active_sensor_ids_for_path /\ ~is_failed[n]
\* the simple paths of usable nodes along neighbor lists, grown hop by hop
RECURSIVE RoutesGrown(_, _)
RoutesGrown(paths, hops) ==
  IF hops = 0 THEN paths
  ELSE RoutesGrown(paths \cup { Append(q, n) : q \in paths, n \in { m \in SensorIds(config) : RouteUsable(m) } },
                   hops - 1)
IsRoute(q) ==
  /\ q[1] = last_call.start_node_id
  /\ q[Len(q)] = config.sink_id
  /\ \A i, j \in 1..Len(q) : i # j => q[i] # q[j]
  /\ \A i \in 1..(Len(q) - 1) : q[i + 1] \in Range(neighbors[q[i]])
  /\ \A i \in 1..Len(q) : RouteUsable(q[i])
Routes == { q \in RoutesGrown({ << last_call.start_node_id >> }, Cardinality(SensorIds(config)) - 1) : IsRoute(q) }
FiniteWeight(q) == \A i \in 2..Len(q) : current_energy[q[i]] > ROUTE_MIN_ENERGY
RouteWeight(q) ==
  << SumOver([ i \in 2..Len(q) |-> cost_component_energy(current_energy[q[i]]) ], 2..Len(q)),
     SumOver([ i \in 2..Len(q) |->
                 communication_tx_cost(4 * DistSq(config.pos[q[i - 1]], config.pos[q[i]])) ],
             2..Len(q)) >>
ReturnedRouteIsBest ==
  /\ last_call.path \in Routes
  /\ FiniteWeight(last_call.path)
  /\ \A q \in Routes :
       FiniteWeight(q) => ~TupleLess(RouteWeight(q), RouteWeight(last_call.path))
NoneIsJustified ==
  \/ ~RouteUsable(last_call.start_node_id)
  \/ \A q \in Routes : ~FiniteWeight(q)
C32_PathValidAndMinimal ==
  RouteCalled => IF last_call.path = << >> THEN NoneIsJustified ELSE ReturnedRouteIsBest

\* C32 as the code has it: as stated for every start node other than the
\* sink; for the sink as start node the result is the one-node path [sink]
\* whenever the sink is non-failed and either in the usable set or ACTIVE,
\* and None otherwise
DegenerateStart == last_call.start_node_id = config.sink_id
C32_PathValidUnlessDegenerate ==
  RouteCalled =>
    IF DegenerateStart
    THEN IF ~is_failed[config.sink_id]
            /\ (config.sink_id \in last_call.active_sensor_ids_for_path
                \/ state[config.sink_id] = ACTIVE)
         THEN last_call.path = << config.sink_id >>
         ELSE last_call.path = << >>
    ELSE IF last_call.path = << >> THEN NoneIsJustified ELSE ReturnedRouteIsBest
C32_Witness ==
  /\ RouteCalled
  /\ last_call.path = << 3, 2, 4, 0 >>
  /\ << 3, 1, 0 >> \in Routes
  /\ FiniteWeight(<< 3, 1, 0 >>)

\* C33: monitoring_phase signals coverage loss for a connectivity reason only
\* when no set of alive, non-failed sensors exists whose activation would
\* connect every trimmed cover-set member to the sink; whenever such a set of
\* bridges exists (chains of two or more sleeping sensors included),
\* connectivity repair succeeds.
PossibleBridges == { s \in SensorIds(config) : ~is_failed[s] /\ state[s] # DEAD }
LostForConnectivity ==
  AfterMonitoringPhase /\ ~monitoring_log.returned /\ monitoring_log.trimmed # {}
C33_LossOnlyWhenNoBridgesExist ==
  LostForConnectivity =>
    ~ \E bridges \in SUBSET PossibleBridges :
        \A s \in monitoring_log.trimmed :
          HasPathWithin(s, monitoring_log.trimmed \cup {config.sink_id} \cup bridges)

\* C34: reward updates never influence scheduling: runs that differ only in
\* reward_method or in the learning rate produce the same cover sets,
\* operational sets, sensor states, energies and packet counters, because
\* the learning step overwrites every automaton's probabilities from the
\* energy ratio before each monitoring phase.  Stated on one run: what
\* learning_phase leaves in every automaton is given by the energies alone,
\* whatever the rewards of earlier rounds left there; a monitoring phase
\* always starts from those values; what the reward step writes (the
\* probabilities and the two best-so-far marks) is written by no step between
\* a monitoring phase and the next learning phase; and the set and working
\* time a monitoring phase hands to update_phase are those it logged before
\* the reward step.
EnergyShare(s) ==
  LET alive == { o \in NonSink(config) : ~is_failed[o] /\ state[o] # DEAD /\ current_energy[o] > 0 }
      total == SumOver(current_energy, alive)
  IN IF total <= NEAR_ZERO \/ current_energy[s] <= 0 THEN 0
     ELSE Ratio(current_energy[s], total)
FromEnergyAlone(s) ==
  LET p == Max(MIN_PROB, Min(ONE - MIN_PROB, EnergyShare(s)))
  IN << p, ONE - p >>
LearningOverwrites ==
  (pc = "learning" /\ pc' = "monitoring") =>
     \A s \in DOMAIN la : la'[s] = FromEnergyAlone(s)
RewardStateWrittenOnlyByReward ==
  (pc \notin { "idle", "learning", "monitoring" }) =>
     UNCHANGED << la, min_Th_cardinality_observed, max_Eth_remaining_energy_observed >>
ScheduleFixedBeforeReward ==
  (pc = "monitoring" /\ pc' = "update" /\ monitoring_log'.returned) =>
     /\ final_cs_ids'.ids = (monitoring_log'.trimmed \cup monitoring_log'.bridges) \ {config.sink_id}
     /\ UNCHANGED << current_energy, state, data_buffer, total_packets_generated, total_packets_delivered_to_sink >>
CardinalityMethod == config.reward_method = "cardinality"
ReturnsSet == pc = "monitoring" /\ pc' = "update" /\ monitoring_log'.returned
SizeReturned == Cardinality(final_cs_ids'.ids)
\* the members a global reward reaches: those with an automaton that are not
\* locally redundant
RewardReaches == { s \in final_cs_ids'.ids : HasLA(s) /\ ~LocallyRedundantWithinCs(s, final_cs_ids'.ids) }
BestTrackedFromSetup ==
  (pc = "idle" /\ current_round = 0) => min_Th_cardinality_observed' = Inf
BestMovesOnlyWithASet ==
  (current_round > 0 /\ ~ReturnsSet) => UNCHANGED min_Th_cardinality_observed
RewardedIffNotLarger ==
  monitoring_log'.rewarded =
    IF SizeReturned <= min_Th_cardinality_observed THEN RewardReaches ELSE {}
BestIsMinimumSeen ==
  min_Th_cardinality_observed' = Min(min_Th_cardinality_observed, SizeReturned)
C35_RewardedIffSmallestSoFar ==
  [][CardinalityMethod =>
       /\ BestTrackedFromSetup
       /\ BestMovesOnlyWithASet
       /\ ReturnsSet => (RewardedIffNotLarger /\ BestIsMinimumSeen)]_vars

\* C35 as the code has it: the comparison is made for non-empty operational
\* sets only; an empty set (returned when no POI is defined) is neither
\* rewarded nor tracked
C35_NonEmptyRewardedIffSmallestSoFar ==
  [][CardinalityMethod =>
       /\ BestTrackedFromSetup
       /\ BestMovesOnlyWithASet
       /\ (ReturnsSet /\ SizeReturned > 0) => (RewardedIffNotLarger /\ BestIsMinimumSeen)
       /\ (ReturnsSet /\ SizeReturned = 0) =>
            (monitoring_log'.rewarded = {} /\ UNCHANGED min_Th_cardinality_observed)]_vars
\* a set larger than the best of the earlier rounds, returned without reward
C35_Witness ==
  /\ AfterMonitoringPhase /\ CardinalityMethod /\ monitoring_log.returned
  /\ current_round >= 2
  /\ Cardinality(final_cs_ids.ids) > min_Th_cardinality_observed
  /\ min_Th_cardinality_observed >= 1
  /\ monitoring_log.rewarded = {}

\* C36: in a globally rewarded round, an operational-set member's automaton
\* receives the reward update if and only if the member is not locally
\* redundant, where a member is locally redundant iff it covers at least one
\* POI in this round's operational set and every POI it covers is advertised
\* in its neighbor_poi_coverage by another member of the operational set;
\* members that cover no POI (pure bridges) are rewarded, and in a round that
\* is not globally rewarded no automaton changes.
CoveredAsMember(s) == { p \in PoiIds(config) : ~is_failed[s] /\ state[s] # DEAD /\ InSensingRange(config, s, p) }
AdvertisedByAnotherMember(s, p, members) ==
  \E n \in members \ {s} :
    n \in neighbor_poi_coverage[s].heard /\ p \in neighbor_poi_coverage[s].cov[n]
RedundantAsMember(s, members) ==
  /\ CoveredAsMember(s) # {}
  /\ \A p \in CoveredAsMember(s) : AdvertisedByAnotherMember(s, p, members)
GloballyRewarded(members) ==
  /\ members # {}
  /\ IF CardinalityMethod
     THEN Cardinality(members) <= min_Th_cardinality_observed
     ELSE SumOver(current_energy, members) >= max_Eth_remaining_energy_observed
C36_RewardSkipsRedundantMembers ==
  [][ReturnsSet =>
       LET members == final_cs_ids'.ids
       IN IF GloballyRewarded(members)
          THEN \A s \in members : HasLA(s) =>
                 /\ (s \in monitoring_log'.rewarded) = ~RedundantAsMember(s, members)
                 /\ la'[s] = IF s \in monitoring_log'.rewarded
                              THEN update_probabilities_LRI(la[s], ACTION_ACTIVE_IDX, TRUE)
                              ELSE la[s]
          ELSE monitoring_log'.rewarded = {} /\ UNCHANGED la]_vars

\* C37: in every round's statistics a POI is counted as covered (in
\* covered_by_sensors, poi_coverage_details and coverage_q_k) only if at
\* least one non-sink sensor that is ACTIVE in that round senses it: the sink
\* never contributes to a POI's coverage, so a round in which no non-sink
\* sensor is ACTIVE reports coverage_q_k == 0 when POIs exist.
CountedAsCovered(p) == Cardinality(covered_by_sensors[p]) >= K_COVERAGE_LEVEL
ActiveNonSinkSensing(p) ==
  { s \in NonSink(config) : state[s] = ACTIVE /\ ~is_failed[s] /\ InSensingRange(config, s, p) }
C37_SinkNeverCovers ==
  /\ pc = "broadcast" =>
       \A p \in PoiIds(config) :
         /\ CountedAsCovered(p) => ActiveNonSinkSensing(p) # {}
         /\ config.sink_id \notin covered_by_sensors[p]
  /\ (RoundReturned /\ config.poi_ids # << >>) =>
       /\ stats.covered_pois = Cardinality({ p \in PoiIds(config) : CountedAsCovered(p) })
       /\ stats.coverage_q_k = (stats.covered_pois * ONE) \div Len(config.poi_ids)
       /\ (\A p \in PoiIds(config) : covered_by_sensors[p] \subseteq {config.sink_id}) =>
            stats.coverage_q_k = 0

\* C38: in cover-set formation the fallback branch never adds a sensor:
\* whenever no critical target is identified while POIs remain uncovered, no
\* non-sink, non-failed, non-DEAD sensor senses any uncovered POI, so the
\* fallback finds no candidate and formation stops (every cover-set member is
\* selected by the critical-sensor rule).  Stated for every cover set and
\* every set of uncovered POIs the loop could hold in the state it runs in.
SensesSomeUncovered(uncovered) ==
  { s \in NonSink(config) :
      /\ ~is_failed[s] /\ state[s] # DEAD
      /\ \E p \in uncovered : InSensingRange(config, s, p) }
C38_FallbackNeverAdds ==
  \A uncovered \in SUBSET PoiIds(config) : \A cs \in SUBSET NonSink(config) :
    (uncovered # {} /\ identify_critical_targets_and_sensors(uncovered)[1] = {}) =>
       /\ SensesSomeUncovered(uncovered) = {}
       /\ FallbackSensor(cs, uncovered) = {}
       /\ FormCoverSet(cs, uncovered, 0) = { cs }
\* a formation that stopped with a POI left that no sensor can sense
C38_Witness ==
  /\ AfterMonitoringPhase
  /\ monitoring_log.cover_set # {}
  /\ \E p \in PoiIds(config) :
       /\ ~ \E s \in monitoring_log.cover_set : InSensingRange(config, s, p)
       /\ identify_critical_targets_and_sensors({p})[1] = {}

\* C39: a send_packet call that returns failure (for any reason, including
\* the receiver dying on receipt) leaves the packet's current_hop_id,
\* path_taken and latency unchanged, so a packet that stays in its sender's
\* buffer carries only the hops and delay of transfers that succeeded.
FailedSend == IF last_call.op = "send_packet" THEN ~last_call.ok ELSE FALSE
C39_FailedSendLeavesPacket ==
  FailedSend =>
    /\ last_call.packet_after.current_hop_id = last_call.packet.current_hop_id
    /\ last_call.packet_after.path_taken = last_call.packet.path_taken
    /\ last_call.packet_after.latency = last_call.packet.latency

\* C40: in the GA optimizer with elitism_count >= 1, the best fitness in the
\* population never decreases from one generation to the next (the top-K
\* individuals are carried forward unmodified), the population size stays
\* pop_size, and the deployment returned has the highest fitness evaluated in
\* any generation.
GaRunning == last_call.op = "run_optimization"
BestFitnessIn(self, population) ==
  LET f == { calculate_fitness(self, population[i], 0).fitness : i \in 1..Len(population) }
  IN  CHOOSE b \in f : \A x \in f : x <= b
FitnessEvaluated(history) ==
  UNION { { history[g][i].fitness : i \in 1..Len(history[g]) } : g \in 1..Len(history) }
CoordsOf(deployment) ==
  [ i \in 1..(2 * Len(deployment)) |->
      IF i % 2 = 1 THEN deployment[(i + 1) \div 2].x ELSE deployment[i \div 2].y ]
ReturnedIsBestEvaluated(run) ==
  /\ ~run.returned.none
  /\ \A k \in 1..Len(run.returned.deployment) : run.returned.deployment[k].id = k - 1
  /\ \E g \in 1..Len(run.history), i \in 1..GaPopSize :
       /\ Len(run.history[g]) = GaPopSize
       /\ run.history[g][i].individual = CoordsOf(run.returned.deployment)
       /\ run.history[g][i].fitness
            = calculate_fitness(run.self, CoordsOf(run.returned.deployment), 0).fitness
  /\ \A x \in FitnessEvaluated(run.history) :
       x <= calculate_fitness(run.self, CoordsOf(run.returned.deployment), 0).fitness
ElitismStep ==
  IF last_call'.op = "run_optimization"
  THEN /\ last_call'.ga.elitism_count >= 1
       /\ Len(last_call'.population) = last_call'.ga.pop_size
       /\ GaRunning =>
            /\ BestFitnessIn(last_call'.self, last_call'.population)
                 >= BestFitnessIn(last_call.self, last_call.population)
            /\ \A k \in 1..last_call.ga.elitism_count :
                 last_call'.population # last_call.population =>
                   last_call'.population[k] = last_call'.history[Len(last_call'.history)][k].individual
       /\ last_call'.finished => ReturnedIsBestEvaluated(last_call')
  ELSE TRUE
C40_ElitismKeepsBest == [][ElitismStep]_vars
\* a finished run of two generations whose second generation held both a
\* better individual than the first generation's best and a worse one
C40_Witness ==
  IF last_call.op = "run_optimization"
  THEN /\ last_call.finished
       /\ Len(last_call.history) = 2
       /\ last_call.history[1][1].fitness > 0
       /\ last_call.history[2][1].fitness > last_call.history[1][1].fitness
       /\ \E i \in 1..GaPopSize :
            last_call.history[2][i].fitness < last_call.history[1][1].fitness
       /\ ~last_call.returned.none
  ELSE FALSE
====
